---- MODULE Spec2Model ----
(***************************************************************************)
(* Daggerheart GM HUD: the panel placement function                        *)
(* (setGMPanelOpenDirection), the drag controller with its persisted       *)
(* position (_enableDragging, _restorePosition) and the HP/Stress clicks   *)
(* of module/apps/dgm-adversary-hud.mjs, and the token hooks of            *)
(* module/daggerheart-gm-hud.mjs that create and close the HUD.            *)
(*                                                                         *)
(* All lengths and coordinates are integers in tenths of a CSS pixel, so   *)
(* that 0.7 * window.innerHeight and the half pixels of the default        *)
(* centred placement are exact.  Px(n) is n pixels.                        *)
(***************************************************************************)
EXTENDS Integers, Sequences, FiniteSets

\* Tenths of a pixel per pixel (the resolution the factor 0.7 needs).
Unit == 10

Px(n) == n * Unit

Min(a, b) == IF a <= b THEN a ELSE b

Max(a, b) == IF a >= b THEN a ELSE b

\* Math.round on tenths of a pixel: nearest whole pixel, halves go up.
Round(v) == ((v + (Unit \div 2)) \div Unit) * Unit

(***************************************************************************)
(* Bounds and input domains                                                *)
(***************************************************************************)
\* Drag gestures (accepted pointerdowns) per run.
MaxGestures == 2

Panels == {"features", "range"}

PanelArgs == Panels \cup {"null"}

\* The full HUD model: viewport sizes (a desktop window, and one narrower
\* than the HUD and lower than the 200 px kept visible), HUD box sizes,
\* pointer positions.
Viewports == {<<Px(1000), Px(800)>>, <<Px(240), Px(150)>>}

HudWidths == {Px(301)}

HudHeights == {Px(60)}

PointerPoints == {<<Px(400), Px(600)>>, <<Px(450), Px(630)>>}

\* Drag gestures per run for the HUD with its popovers in use.
MaxHudGestures == 1

Buttons == {0, 2}

\* Where a pointerdown lands: on the handle proper; on the handle but inside
\* .dgm-roll, .dgm-count .value or .dgm-features-toggle; or outside the HUD.
Targets == {"core", "excluded", "outside"}

\* actor.update calls in flight at a time.
MaxUpdates == 2

\* The ranges that have a button with a template: squaresByRange without
\* melee and veryfar, which _createRangeTemplate skips.
Ranges == {"veryclose", "close", "far"}

\* Instances whose close is in progress at a time.
MaxClosing == 2

\* The tokens of the scene with their actors: three adversaries, two of
\* them tokens of the same actor, a player character and a token without
\* an actor.
Tokens == {"a1", "a2", "a3", "c1", "n1"}

ActorOf == [a1 |-> "goblin", a2 |-> "ogre", a3 |-> "goblin", c1 |-> "hero", n1 |-> "none"]

\* Requests on the scene's templates in flight at a time, and templates in
\* the scene at a time.
MaxRequests == 2

MaxTemplates == 2

\* Document ids for the templates; an id is not given twice while a
\* request in flight still names it.
TemplateIds == 1 .. (MaxTemplates * (MaxRequests + 1))

ActorType == [goblin |-> "adversary", ogre |-> "adversary", hero |-> "character"]

Actors == DOMAIN ActorType

Systems == {"daggerheart", "dnd5e"}

\* resources.<r>.value and resources.<r>.max of an actor; a max of 0 is
\* also what Number(max ?? 0) makes of a missing one.
ResourceValues == 0 .. 3

ResourceMaxes == {0, 2, 3}

\* The placement function alone: viewport heights, container tops and
\* heights, panel scrollHeights (0: not laid out).
PlaceHeights == {Px(200), Px(300), Px(400), Px(800), Px(1000)}

PlaceTops == {Px(0), Px(100), Px(170), Px(240), Px(400), Px(500)}

PlaceHudHeights == {Px(60), Px(140)}

ContentHeights == {Px(0), Px(100), Px(240), Px(300), Px(600)}

VARIABLES
    innerWidth,     \* window.innerWidth
    innerHeight,    \* window.innerHeight
    hudW,           \* laid-out width of the HUD container
    hudH,           \* laid-out height of the HUD container
    scrollH,        \* panel -> panel.scrollHeight
    pointerX,       \* clientX of the pointer
    pointerY,       \* clientY of the pointer
    hudOpen,        \* _gmHudApp is an open, rendered HUD
    posMode,        \* "default" (bottom:100px; left:50%; translateX(-50%)) or "fixed" (left/top in px)
    styleLeft,      \* root.style.left when posMode = "fixed"
    styleTop,       \* root.style.top when posMode = "fixed"
    dataOpen,       \* data-open of .dgm-hud: "", "features" or "range"
    panelStyle,     \* panel -> [dir: data-open-dir, maxh: --dgm-panel-maxh, gap: --dgm-panel-gap]
    isDragging,     \* the closure variable of _enableDragging
    thisIsDragging, \* this._isDragging
    startX,         \* pointer position captured by onDown
    startY,
    startLeft,      \* container position captured by onDown
    startTop,
    listening,      \* onMove/onUp are registered on window
    resizeBound,    \* this._resizeHandlerBound
    hudPosition,    \* the user flag daggerheart-gm-hud.hudPosition
    pending,        \* setFlag calls in flight, oldest first
    raf,            \* requestAnimationFrame callbacks waiting for the next frame
    gestures,       \* number of drags started (pointerdowns that onDown accepted)
    lastDrop,       \* the container's position at the latest pointerup that ended a drag
    lastCall,       \* panel argument -> what the latest setGMPanelOpenDirection call on it logged
    lastEvent,      \* the event or callback handled last
    hudToken,       \* _gmHudApp.token, "none" while _gmHudApp is null
    orphans,        \* closed instances whose onMove/onUp are still registered on window
    isGM,           \* game.user.isGM
    systemId,       \* game.system.id
    sceneTokens,    \* the tokens on the canvas
    controlled,     \* canvas.tokens.controlled, in the order of selection
    hitPoints,      \* actor -> [value, max] of system.resources.hitPoints
    stress,         \* actor -> [value, max] of system.resources.stress
    updates,        \* actor.update calls in flight, oldest first
    templates,      \* the MeasuredTemplate documents of the scene that carry this module's flags
    requests,       \* create/delete requests on the scene's templates in flight, oldest first
    active,         \* range -> the range button of the HUD has the class "active"
    closing         \* instances createOrUpdateGMHUD has called close() on and whose close has not finished

envVars == <<innerWidth, innerHeight, hudW, hudH, scrollH, pointerX, pointerY>>

hudVars == <<hudOpen, posMode, styleLeft, styleTop, dataOpen, panelStyle>>

dragVars == <<isDragging, thisIsDragging, startX, startY, startLeft, startTop, listening, resizeBound>>

storeVars == <<hudPosition, pending, raf, gestures, lastDrop>>

\* The host's side: the user, the game system, the canvas, the actors.
worldVars == <<isGM, systemId, closing, sceneTokens, controlled, hitPoints, stress, updates,
               templates>>

\* The range buttons of the HUD and what their click handlers wait for.
rangeVars == <<requests, active>>

vars == <<envVars, hudVars, dragVars, storeVars, lastCall, lastEvent, hudToken, orphans,
          rangeVars, worldVars>>

(***************************************************************************)
(* setGMPanelOpenDirection                                                 *)
(***************************************************************************)
minRoom == Px(220)

margin == Px(12)

\* panel.scrollHeight || 320
ContentHeight(scrollHeight) == IF scrollHeight = 0 THEN Px(320) ELSE scrollHeight

\* Math.min(window.innerHeight * 0.7, 500)
MaxContentHeight(vh) == Min((7 * vh) \div 10, Px(500))

NeedNoFloor(contentHeight, maxContentHeight) == Min(contentHeight, maxContentHeight)

\* Math.max(minRoom, Math.min(contentHeight, maxContentHeight))
Need(contentHeight, maxContentHeight) ==
    Max(minRoom, Min(contentHeight, maxContentHeight))

ChooseDirTieUp(spaceBelow, spaceAbove, need) ==
    IF spaceBelow >= need THEN "down"
    ELSE IF spaceAbove >= need THEN "up"
    ELSE IF spaceBelow > spaceAbove THEN "down" ELSE "up"

\* lines 51-53
ChooseDir(spaceBelow, spaceAbove, need) ==
    IF spaceBelow >= need THEN "down"
    ELSE IF spaceAbove >= need THEN "up"
    ELSE IF spaceBelow >= spaceAbove THEN "down" ELSE "up"

MaxHNoFloor(dir, spaceAbove, spaceBelow) ==
    IF dir = "down" THEN spaceBelow - margin ELSE spaceAbove - margin

MaxHSwapped(dir, spaceAbove, spaceBelow) ==
    IF dir = "down" THEN Max(Px(180), spaceAbove - margin)
    ELSE Max(Px(180), spaceBelow - margin)

\* lines 62-65
MaxH(dir, spaceAbove, spaceBelow) ==
    IF dir = "down" THEN Max(Px(180), spaceBelow - margin)
    ELSE Max(Px(180), spaceAbove - margin)

FinalMaxHeightUnclamped(maxH, maxContentHeight) == maxH

\* Math.min(maxH, maxContentHeight)
FinalMaxHeight(maxH, maxContentHeight) == Min(maxH, maxContentHeight)

NoStyle == [dir |-> "", maxh |-> 0, gap |-> 0]

NoCall == [outcome |-> "none", spaceAbove |-> 0, spaceBelow |-> 0, viewportHeight |-> 0,
           scrollHeight |-> 0, contentHeight |-> 0, need |-> 0, dir |-> "", finalMaxHeight |-> 0]

\* What one call that gets past both early returns computes (and logs), from
\* the container's rect, the viewport height and the panel's scrollHeight.
Measure(rectTop, rectBottom, vh, scrollHeight) ==
    LET spaceAbove == rectTop
        spaceBelow == vh - rectBottom
        contentHeight == ContentHeight(scrollHeight)
        maxContentHeight == MaxContentHeight(vh)
        need == Need(contentHeight, maxContentHeight)
        dir == ChooseDir(spaceBelow, spaceAbove, need)
        maxH == MaxH(dir, spaceAbove, spaceBelow)
    IN  [outcome |-> "placed", spaceAbove |-> spaceAbove, spaceBelow |-> spaceBelow,
         viewportHeight |-> vh, scrollHeight |-> scrollHeight,
         contentHeight |-> contentHeight, need |-> need, dir |-> dir,
         finalMaxHeight |-> FinalMaxHeight(maxH, maxContentHeight)]

\* The call's outcome: the two early returns, or the measurement.
CallOutcome(panel, hasContainer, rectTop, rectBottom, vh, scrollHeight) ==
    IF panel = "null" THEN [NoCall EXCEPT !.outcome = "no-panel"]
    ELSE IF ~hasContainer THEN [NoCall EXCEPT !.outcome = "no-container"]
    ELSE Measure(rectTop, rectBottom, vh, scrollHeight)

StyleAlwaysWritten(old, call) ==
    [dir |-> call.dir, maxh |-> call.finalMaxHeight, gap |-> Px(8)]

\* The panel's attribute and custom properties after the call (lines 58, 68, 69).
StyleAfter(old, call) ==
    IF call.outcome = "placed"
    THEN [dir |-> call.dir, maxh |-> call.finalMaxHeight, gap |-> Px(8)]
    ELSE old

(***************************************************************************)
(* Geometry of the HUD container                                           *)
(***************************************************************************)
\* getBoundingClientRect().left / .top of the root element.
RectLeftIn(mode, sLeft, vw) == IF mode = "fixed" THEN sLeft ELSE (vw - hudW) \div 2

RectTopIn(mode, sTop, vh) == IF mode = "fixed" THEN sTop ELSE vh - Px(100) - hudH

RectLeft == RectLeftIn(posMode, styleLeft, innerWidth)

RectTop == RectTopIn(posMode, styleTop, innerHeight)

\* setGMPanelOpenDirection(panel) for a panel of the rendered HUD, with the
\* container at (mode, sTop) in a viewport of height vh.
PlaceIn(panel, mode, sTop, vh) ==
    CallOutcome(panel, TRUE, RectTopIn(mode, sTop, vh), RectTopIn(mode, sTop, vh) + hudH,
                vh, scrollH[panel])

\* The direct call, as the function is exported to its callers.
SetGMPanelOpenDirection(panel, hasContainer) ==
    /\ hudOpen
    /\ LET call == CallOutcome(panel, hasContainer, RectTop, RectTop + hudH, innerHeight,
                               IF panel = "null" THEN 0 ELSE scrollH[panel])
       IN  /\ lastCall' = [lastCall EXCEPT ![panel] = call]
           /\ panelStyle' = [p \in Panels |->
                                IF p = panel THEN StyleAfter(panelStyle[p], call)
                                ELSE panelStyle[p]]
    /\ lastEvent' = [type |-> "call", button |-> 0, target |-> panel]
    /\ UNCHANGED <<envVars, hudOpen, posMode, styleLeft, styleTop, dataOpen, dragVars, storeVars>>
    /\ UNCHANGED <<hudToken, orphans, rangeVars, worldVars>>

NoPos == [set |-> FALSE, left |-> 0, top |-> 0]

Pos(l, t) == [set |-> TRUE, left |-> l, top |-> t]

NoEvent == [type |-> "init", button |-> 0, target |-> ""]

\* A rendered HUD anywhere on screen, nothing else going on.
InitPlace ==
    /\ innerWidth = Px(1000)
    /\ innerHeight \in PlaceHeights
    /\ hudW = Px(300)
    /\ hudH \in PlaceHudHeights
    /\ scrollH \in [Panels -> ContentHeights]
    /\ pointerX = Px(400)
    /\ pointerY = Px(600)
    /\ hudOpen = TRUE
    /\ posMode = "fixed"
    /\ styleLeft = Px(100)
    /\ styleTop \in PlaceTops
    /\ dataOpen = ""
    /\ panelStyle = [p \in Panels |-> NoStyle]
    /\ isDragging = FALSE
    /\ thisIsDragging = FALSE
    /\ startX = 0
    /\ startY = 0
    /\ startLeft = 0
    /\ startTop = 0
    /\ listening = FALSE
    /\ resizeBound = TRUE
    /\ hudPosition = NoPos
    /\ pending = <<>>
    /\ raf = {}
    /\ gestures = 0
    /\ lastDrop = NoPos
    /\ lastCall = [p \in PanelArgs |-> NoCall]
    /\ lastEvent = NoEvent
    /\ hudToken = "a1"
    /\ orphans = 0
    /\ isGM = TRUE
    /\ systemId = "daggerheart"
    /\ sceneTokens = Tokens
    /\ controlled = <<"a1">>
    /\ hitPoints = [a \in Actors |-> [value |-> 0, max |-> 3]]
    /\ stress = [a \in Actors |-> [value |-> 0, max |-> 3]]
    /\ updates = <<>>
    /\ templates = {}
    /\ requests = <<>>
    /\ active = [r \in Ranges |-> FALSE]
    /\ closing = 0

NextPlace == \E p \in PanelArgs, c \in BOOLEAN : SetGMPanelOpenDirection(p, c)

SpecPlace == InitPlace /\ [][NextPlace]_vars

(***************************************************************************)
(* The HUD instance: creation and render, the drag controller, the         *)
(* position flag, the popover toggles and the resize handler               *)
(***************************************************************************)
\* The strip of the viewport the container's corner is kept out of.
minVisible == Px(200)

ClampNoUpper(v, limit) == Max(0, v)

\* Math.max(0, Math.min(v, limit))
ClampPos(v, limit) == Max(0, Min(v, limit))

AcceptedAnyButton(button, target) == target = "core"

\* onDown goes on: primary button, and the target is on the handle and not
\* inside .dgm-roll, .dgm-count .value or .dgm-features-toggle.
Accepted(button, target) == button = 0 /\ target = "core"

PosToSaveStart(rectLeft, rectTop) == Pos(Round(startLeft), Round(startTop))

PosToSaveFloor(rectLeft, rectTop) ==
    Pos((rectLeft \div Unit) * Unit, (rectTop \div Unit) * Unit)

\* onUp: { left: Math.round(rect.left), top: Math.round(rect.top) }
PosToSave(rectLeft, rectTop) == Pos(Round(rectLeft), Round(rectTop))

\* Values of the hudPosition flag a session can start with: none, or one
\* saved earlier.
InitialSaved == {NoPos, Pos(Px(100), Px(100))}

FramePanelsToggleOnly == {p \in Panels : p \in raf}

\* The panels one animation frame re-places: the panel of each toggle that
\* asked for it, and the features panel after a drag if it is open.
FramePanels ==
    {p \in Panels : \/ p \in raf
                    \/ (p = "features" /\ "dragend" \in raf /\ dataOpen = "features")}

\* panelStyle and lastCall after setGMPanelOpenDirection ran on each panel
\* of ps, the container being at (mode, sTop) in a viewport of height vh.
PlacePanels(ps, mode, sTop, vh) ==
    /\ panelStyle' = [p \in Panels |->
                         IF p \in ps THEN StyleAfter(panelStyle[p], PlaceIn(p, mode, sTop, vh))
                         ELSE panelStyle[p]]
    /\ lastCall' = [p \in PanelArgs |->
                       IF p \in ps THEN PlaceIn(p, mode, sTop, vh) ELSE lastCall[p]]

Event(type, button, target) == [type |-> type, button |-> button, target |-> target]

\* Callbacks of an instance that is closed act on its detached elements.
Orphaned(writes) == [i \in 1..Len(writes) |-> [writes[i] EXCEPT !.live = FALSE]]

IsValidAnyActor(token) ==
    /\ token # "none"
    /\ ActorOf[token] # "none"
    /\ systemId = "daggerheart"

\* isValidAdversary(token): the token has an actor, the system is
\* daggerheart, the actor's type is "adversary".
IsValidAdversary(token) ==
    /\ token # "none"
    /\ ActorOf[token] # "none"
    /\ systemId = "daggerheart"
    /\ ActorType[ActorOf[token]] = "adversary"

ControlledAdversaryFirst(ctrl) ==
    IF ~isGM THEN "none"
    ELSE LET adversaryTokens == SelectSeq(ctrl, IsValidAdversary)
         IN  IF Len(adversaryTokens) > 0 THEN adversaryTokens[1] ELSE "none"

\* getControlledAdversaryToken() when canvas.tokens.controlled is ctrl.
ControlledAdversaryIn(ctrl) ==
    IF ~isGM THEN "none"
    ELSE LET adversaryTokens == SelectSeq(ctrl, IsValidAdversary)
         IN  IF Len(adversaryTokens) > 0 THEN adversaryTokens[Len(adversaryTokens)]
             ELSE "none"

GetControlledAdversaryToken == ControlledAdversaryIn(controlled)

\* What createOrUpdateGMHUD can change.
\* _hasTemplateForRange(token, range): some template of the scene carries
\* this module's flags with that tokenId and that range.
HasTemplateForRange(token, range) ==
    \E t \in templates : t.tokenId = token /\ t.range = range

\* _updateAllRangeButtonStates() of a HUD whose token is token.
AllRangeButtonStates(token) == [r \in Ranges |-> HasTemplateForRange(token, r)]

instanceVars == <<hudVars, hudToken, dragVars, pending, raf, orphans, lastCall, rangeVars>>

\* new DaggerheartGMHUD({actor, token}) and render(true), an open HUD having
\* been closed first: _restorePosition places the new element,
\* _enableDragging makes a new closure.  close() takes the resize handler
\* away but not the onMove/onUp of a drag in progress, which stay on window
\* with their closure.
HudCreatedUnclamped(token) ==
    /\ hudOpen' = TRUE
    /\ hudToken' = token
    /\ IF hudPosition.set
       THEN /\ posMode' = "fixed"
            /\ styleLeft' = hudPosition.left
            /\ styleTop' = hudPosition.top
       ELSE /\ posMode' = "default"
            /\ styleLeft' = 0
            /\ styleTop' = 0
    /\ dataOpen' = ""
    /\ panelStyle' = [p \in Panels |-> NoStyle]
    /\ lastCall' = [p \in PanelArgs |-> NoCall]
    /\ isDragging' = FALSE
    /\ thisIsDragging' = FALSE
    /\ startX' = 0
    /\ startY' = 0
    /\ startLeft' = 0
    /\ startTop' = 0
    /\ listening' = FALSE
    /\ orphans' = IF listening THEN orphans + 1 ELSE orphans
    /\ resizeBound' = TRUE
    /\ pending' = Orphaned(pending)
    /\ raf' = {}
    /\ requests' = Orphaned(requests)
    /\ active' = AllRangeButtonStates(token)

HudCreated(token) ==
    /\ hudOpen' = TRUE
    /\ hudToken' = token
    /\ IF hudPosition.set
       THEN /\ posMode' = "fixed"
            /\ styleLeft' = ClampPos(hudPosition.left, innerWidth - minVisible)
            /\ styleTop' = ClampPos(hudPosition.top, innerHeight - minVisible)
       ELSE /\ posMode' = "default"
            /\ styleLeft' = 0
            /\ styleTop' = 0
    /\ dataOpen' = ""
    /\ panelStyle' = [p \in Panels |-> NoStyle]
    /\ lastCall' = [p \in PanelArgs |-> NoCall]
    /\ isDragging' = FALSE
    /\ thisIsDragging' = FALSE
    /\ startX' = 0
    /\ startY' = 0
    /\ startLeft' = 0
    /\ startTop' = 0
    /\ listening' = FALSE
    /\ orphans' = IF listening THEN orphans + 1 ELSE orphans
    /\ resizeBound' = TRUE
    /\ pending' = Orphaned(pending)
    /\ raf' = {}
    /\ requests' = Orphaned(requests)
    /\ active' = AllRangeButtonStates(token)

\* _gmHudApp.close({force: true}); _gmHudApp = null.
HudClosed ==
    /\ hudOpen' = FALSE
    /\ hudToken' = "none"
    /\ posMode' = "default"
    /\ styleLeft' = 0
    /\ styleTop' = 0
    /\ dataOpen' = ""
    /\ panelStyle' = [p \in Panels |-> NoStyle]
    /\ lastCall' = [p \in PanelArgs |-> NoCall]
    /\ isDragging' = FALSE
    /\ thisIsDragging' = FALSE
    /\ startX' = 0
    /\ startY' = 0
    /\ startLeft' = 0
    /\ startTop' = 0
    /\ listening' = FALSE
    /\ orphans' = IF listening THEN orphans + 1 ELSE orphans
    /\ resizeBound' = FALSE
    /\ pending' = Orphaned(pending)
    /\ raf' = {}
    /\ requests' = Orphaned(requests)
    /\ active' = [r \in Ranges |-> FALSE]

\* createOrUpdateGMHUD(token): nothing for a user who is not a GM; an
\* existing HUD is closed; a HUD is created for a valid adversary token.
CreateOrUpdateGMHUD(token) ==
    IF ~isGM THEN UNCHANGED instanceVars
    ELSE IF token = "none" \/ ~IsValidAdversary(token)
    THEN IF hudOpen THEN HudClosed ELSE UNCHANGED instanceVars
    ELSE HudCreated(token)

\* createOrUpdateGMHUD(token) for the adversary token under control, called
\* while no drag is in progress, with the render it starts.
CreateHUD ==
    /\ ~listening
    /\ GetControlledAdversaryToken # "none"
    /\ CreateOrUpdateGMHUD(GetControlledAdversaryToken)
    /\ lastEvent' = Event("create", 0, "")
    /\ UNCHANGED <<envVars, hudPosition, gestures, lastDrop, worldVars>>

\* createOrUpdateGMHUD(null), called while no drag is in progress: the HUD
\* is closed and none is created.
CloseHUD ==
    /\ hudOpen
    /\ ~listening
    /\ CreateOrUpdateGMHUD("none")
    /\ lastEvent' = Event("close", 0, "")
    /\ UNCHANGED <<envVars, hudPosition, gestures, lastDrop, worldVars>>

PointerDownKeepsOrigin(button, target, maxGestures) ==
    /\ hudOpen
    /\ lastEvent' = Event("pointerdown", button, target)
    /\ dataOpen' = IF target = "outside" THEN "" ELSE dataOpen
    /\ IF target \in {"core", "excluded"} /\ Accepted(button, target)
       THEN /\ gestures < maxGestures
            /\ gestures' = gestures + 1
            /\ isDragging' = TRUE
            /\ startX' = IF isDragging THEN startX ELSE pointerX
            /\ startY' = IF isDragging THEN startY ELSE pointerY
            /\ startLeft' = IF isDragging THEN startLeft ELSE RectLeft
            /\ startTop' = IF isDragging THEN startTop ELSE RectTop
            /\ listening' = TRUE
       ELSE UNCHANGED <<isDragging, startX, startY, startLeft, startTop, listening, gestures>>
    /\ UNCHANGED <<envVars, hudOpen, posMode, styleLeft, styleTop, panelStyle,
                   thisIsDragging, resizeBound, hudPosition, pending, raf, lastDrop, lastCall>>
    /\ UNCHANGED <<hudToken, orphans, rangeVars, worldVars>>

\* A pointerdown at the pointer's position: onDocClick (document, capture)
\* closes the popovers when it lands outside the HUD; onDown runs when it
\* lands on the handle.
PointerDown(button, target, maxGestures) ==
    /\ hudOpen
    /\ lastEvent' = Event("pointerdown", button, target)
    /\ dataOpen' = IF target = "outside" THEN "" ELSE dataOpen
    /\ IF target \in {"core", "excluded"} /\ Accepted(button, target)
       THEN /\ gestures < maxGestures
            /\ gestures' = gestures + 1
            /\ isDragging' = TRUE
            /\ startX' = pointerX
            /\ startY' = pointerY
            /\ startLeft' = RectLeft
            /\ startTop' = RectTop
            /\ listening' = TRUE
       ELSE UNCHANGED <<isDragging, startX, startY, startLeft, startTop, listening, gestures>>
    /\ UNCHANGED <<envVars, hudOpen, posMode, styleLeft, styleTop, panelStyle,
                   thisIsDragging, resizeBound, hudPosition, pending, raf, lastDrop, lastCall>>
    /\ UNCHANGED <<hudToken, orphans, rangeVars, worldVars>>

\* The pointer moves to (x, y); onMove runs when it is registered.
PointerMove(x, y) ==
    /\ <<x, y>> # <<pointerX, pointerY>>
    /\ pointerX' = x
    /\ pointerY' = y
    /\ lastEvent' = Event("pointermove", 0, "")
    /\ IF listening /\ isDragging
       THEN /\ thisIsDragging' = TRUE
            /\ posMode' = "fixed"
            /\ styleLeft' = ClampPos(startLeft + (x - startX), innerWidth - minVisible)
            /\ styleTop' = ClampPos(startTop + (y - startY), innerHeight - minVisible)
       ELSE UNCHANGED <<thisIsDragging, posMode, styleLeft, styleTop>>
    /\ UNCHANGED <<innerWidth, innerHeight, hudW, hudH, scrollH, hudOpen, dataOpen, panelStyle,
                   isDragging, startX, startY, startLeft, startTop, listening, resizeBound,
                   storeVars, lastCall>>
    /\ UNCHANGED <<hudToken, orphans, rangeVars, worldVars>>

PointerUpWritesTwice ==
    /\ hudOpen \/ orphans > 0
    /\ IF listening /\ isDragging
       THEN /\ isDragging' = FALSE
            /\ listening' = FALSE
            /\ thisIsDragging' = FALSE
            /\ pending' = pending \o <<[pos |-> PosToSave(RectLeft, RectTop), live |-> TRUE],
                                        [pos |-> PosToSave(RectLeft, RectTop), live |-> TRUE]>>
            /\ lastDrop' = Pos(RectLeft, RectTop)
            /\ lastEvent' = Event("pointerup", 0, "ended")
       ELSE /\ lastEvent' = Event("pointerup", 0, IF orphans > 0 THEN "orphan" ELSE "")
            /\ pending' = pending
            /\ UNCHANGED <<isDragging, listening, thisIsDragging, lastDrop>>
    /\ orphans' = 0
    /\ UNCHANGED <<envVars, hudVars, startX, startY, startLeft, startTop, resizeBound,
                   hudPosition, raf, gestures, lastCall, hudToken, rangeVars, worldVars>>

\* The setFlag calls of the onUp of n closed instances: each ends its drag,
\* takes its listeners away and saves the rect of its element, which has
\* left the document and measures (0, 0).
OrphanWrites(n) == [i \in 1..n |-> [pos |-> PosToSave(0, 0), live |-> FALSE]]

\* A pointerup; each registered onUp runs up to its await, the oldest
\* first: the drag ends, the listeners go, setFlag is called with the
\* rounded position.
PointerUp ==
    /\ hudOpen \/ orphans > 0
    /\ IF listening /\ isDragging
       THEN /\ isDragging' = FALSE
            /\ listening' = FALSE
            /\ thisIsDragging' = FALSE
            /\ pending' = Append(pending \o OrphanWrites(orphans),
                                 [pos |-> PosToSave(RectLeft, RectTop), live |-> TRUE])
            /\ lastDrop' = Pos(RectLeft, RectTop)
            /\ lastEvent' = Event("pointerup", 0, "ended")
       ELSE /\ lastEvent' = Event("pointerup", 0, IF orphans > 0 THEN "orphan" ELSE "")
            /\ pending' = pending \o OrphanWrites(orphans)
            /\ UNCHANGED <<isDragging, listening, thisIsDragging, lastDrop>>
    /\ orphans' = 0
    /\ UNCHANGED <<envVars, hudVars, startX, startY, startLeft, startTop, resizeBound,
                   hudPosition, raf, gestures, lastCall, hudToken, rangeVars, worldVars>>

SetFlagSettlesRollsBack(ok) ==
    /\ pending # <<>>
    /\ hudPosition' = IF ok THEN Head(pending).pos ELSE hudPosition
    /\ pending' = Tail(pending)
    /\ raf' = IF Head(pending).live THEN raf \cup {"dragend"} ELSE raf
    /\ lastEvent' = Event("settle", 0, IF ok THEN "ok" ELSE "rejected")
    /\ IF ~ok /\ hudPosition.set
       THEN /\ posMode' = "fixed"
            /\ styleLeft' = hudPosition.left
            /\ styleTop' = hudPosition.top
       ELSE UNCHANGED <<posMode, styleLeft, styleTop>>
    /\ UNCHANGED <<envVars, hudOpen, dataOpen, panelStyle, dragVars, gestures, lastDrop,
                   lastCall>>
    /\ UNCHANGED <<hudToken, orphans, rangeVars, worldVars>>

SetFlagSettlesEndsDrag(ok) ==
    /\ pending # <<>>
    /\ hudPosition' = IF ok THEN Head(pending).pos ELSE hudPosition
    /\ pending' = Tail(pending)
    /\ raf' = IF Head(pending).live THEN raf \cup {"dragend"} ELSE raf
    /\ lastEvent' = Event("settle", 0, IF ok THEN "ok" ELSE "rejected")
    /\ isDragging' = FALSE
    /\ listening' = FALSE
    /\ UNCHANGED <<envVars, hudVars, thisIsDragging, startX, startY, startLeft, startTop,
                   resizeBound, gestures, lastDrop, lastCall>>
    /\ UNCHANGED <<hudToken, orphans, rangeVars, worldVars>>

\* The oldest setFlag in flight settles: resolved (the flag holds the value)
\* or rejected (caught, the flag is as it was).  onUp then goes on to its
\* requestAnimationFrame.
SetFlagSettlesNoFrame(ok) ==
    /\ pending # <<>>
    /\ hudPosition' = IF ok THEN Head(pending).pos ELSE hudPosition
    /\ pending' = Tail(pending)
    /\ raf' = raf
    /\ lastEvent' = Event("settle", 0, IF ok THEN "ok" ELSE "rejected")
    /\ UNCHANGED <<envVars, hudVars, dragVars, gestures, lastDrop, lastCall>>
    /\ UNCHANGED <<hudToken, orphans, rangeVars, worldVars>>

SetFlagSettles(ok) ==
    /\ pending # <<>>
    /\ hudPosition' = IF ok THEN Head(pending).pos ELSE hudPosition
    /\ pending' = Tail(pending)
    /\ raf' = IF Head(pending).live THEN raf \cup {"dragend"} ELSE raf
    /\ lastEvent' = Event("settle", 0, IF ok THEN "ok" ELSE "rejected")
    /\ UNCHANGED <<envVars, hudVars, dragVars, gestures, lastDrop, lastCall>>
    /\ UNCHANGED <<hudToken, orphans, rangeVars, worldVars>>

\* The next animation frame runs the waiting callbacks.
AnimationFrame ==
    /\ hudOpen
    /\ raf # {}
    /\ PlacePanels(FramePanels, posMode, styleTop, innerHeight)
    /\ raf' = {}
    /\ lastEvent' = Event("frame", 0, "")
    /\ UNCHANGED <<envVars, hudOpen, posMode, styleLeft, styleTop, dataOpen, dragVars,
                   hudPosition, pending, gestures, lastDrop>>
    /\ UNCHANGED <<hudToken, orphans, rangeVars, worldVars>>

ResizeReclamps(w, h) ==
    /\ <<w, h>> # <<innerWidth, innerHeight>>
    /\ innerWidth' = w
    /\ innerHeight' = h
    /\ styleLeft' = IF posMode = "fixed" THEN ClampPos(styleLeft, w - minVisible) ELSE styleLeft
    /\ styleTop' = IF posMode = "fixed" THEN ClampPos(styleTop, h - minVisible) ELSE styleTop
    /\ IF hudOpen /\ resizeBound /\ ~thisIsDragging /\ dataOpen = "features"
       THEN PlacePanels({"features"}, posMode, styleTop', h)
       ELSE UNCHANGED <<panelStyle, lastCall>>
    /\ lastEvent' = Event("resize", 0, "")
    /\ UNCHANGED <<hudW, hudH, scrollH, pointerX, pointerY, hudOpen, posMode,
                   dataOpen, dragVars, storeVars>>
    /\ UNCHANGED <<hudToken, orphans, rangeVars, worldVars>>

\* The window is resized to w x h; _onResize runs while it is registered.
Resize(w, h) ==
    /\ <<w, h>> # <<innerWidth, innerHeight>>
    /\ innerWidth' = w
    /\ innerHeight' = h
    /\ IF hudOpen /\ resizeBound /\ ~thisIsDragging /\ dataOpen = "features"
       THEN PlacePanels({"features"}, posMode, styleTop, h)
       ELSE UNCHANGED <<panelStyle, lastCall>>
    /\ lastEvent' = Event("resize", 0, "")
    /\ UNCHANGED <<hudW, hudH, scrollH, pointerX, pointerY, hudOpen, posMode, styleLeft,
                   styleTop, dataOpen, dragVars, storeVars>>
    /\ UNCHANGED <<hudToken, orphans, rangeVars, worldVars>>

\* A click on the features toggle / a right-click on a range button:
\* data-open flips, and an opening popover is placed in the next frame.
TogglePanel(panel) ==
    /\ hudOpen
    /\ dataOpen' = IF dataOpen = panel THEN "" ELSE panel
    /\ raf' = IF dataOpen = panel THEN raf ELSE raf \cup {panel}
    /\ lastEvent' = Event("toggle", 0, panel)
    /\ UNCHANGED <<envVars, hudOpen, posMode, styleLeft, styleTop, panelStyle, dragVars,
                   hudPosition, pending, gestures, lastDrop, lastCall>>
    /\ UNCHANGED <<hudToken, orphans, rangeVars, worldVars>>

(***************************************************************************)
(* The hooks of the main module                                            *)
(***************************************************************************)
Without(ctrl, token) == SelectSeq(ctrl, LAMBDA t : t # token)

IsControlled(token) == \E i \in 1..Len(controlled) : controlled[i] = token

\* Hooks.on("controlToken"): the canvas has put the token at the end of
\* canvas.tokens.controlled, or taken it out, and calls the hook.
ControlToken(token, isControlled) ==
    /\ token \in sceneTokens
    /\ isControlled = ~IsControlled(token)
    /\ LET ctrl == IF isControlled THEN Append(controlled, token)
                   ELSE Without(controlled, token)
           remainingAdversary == ControlledAdversaryIn(ctrl)
       IN  /\ controlled' = ctrl
           /\ IF ~isGM THEN UNCHANGED instanceVars
              ELSE IF isControlled /\ IsValidAdversary(token)
                   THEN CreateOrUpdateGMHUD(token)
              ELSE IF ~isControlled
                   THEN IF remainingAdversary # "none" /\ remainingAdversary # token
                        THEN CreateOrUpdateGMHUD(remainingAdversary)
                        ELSE IF remainingAdversary = "none"
                             THEN CreateOrUpdateGMHUD("none")
                             ELSE UNCHANGED instanceVars
              ELSE UNCHANGED instanceVars
    /\ lastEvent' = Event(IF isControlled THEN "select" ELSE "release", 0, token)
    /\ UNCHANGED <<envVars, hudPosition, gestures, lastDrop,
                   isGM, systemId, closing, sceneTokens, hitPoints, stress, updates, templates>>

DeleteTokenKeepsHud(token) ==
    /\ token \in sceneTokens
    /\ sceneTokens' = sceneTokens \ {token}
    /\ controlled' = Without(controlled, token)
    /\ UNCHANGED instanceVars
    /\ lastEvent' = Event("deleteToken", 0, token)
    /\ UNCHANGED <<envVars, hudPosition, gestures, lastDrop,
                   isGM, systemId, closing, hitPoints, stress, updates, templates>>

\* Hooks.on("deleteToken"): the token is gone from the canvas and from the
\* controlled tokens; a HUD that shows it is closed.
DeleteToken(token) ==
    /\ token \in sceneTokens
    /\ sceneTokens' = sceneTokens \ {token}
    /\ controlled' = Without(controlled, token)
    /\ IF isGM /\ hudOpen /\ hudToken = token
       THEN CreateOrUpdateGMHUD("none")
       ELSE UNCHANGED instanceVars
    /\ lastEvent' = Event("deleteToken", 0, token)
    /\ UNCHANGED <<envVars, hudPosition, gestures, lastDrop,
                   isGM, systemId, closing, hitPoints, stress, updates, templates>>

\* Hooks.on("canvasReady"): the canvas is drawn again, with the selection
\* kept or dropped; the HUD is re-created for the controlled adversary or
\* closed.
CanvasReady(keep) ==
    /\ controlled' = IF keep THEN controlled ELSE <<>>
    /\ IF ~isGM THEN UNCHANGED instanceVars
       ELSE CreateOrUpdateGMHUD(ControlledAdversaryIn(IF keep THEN controlled ELSE <<>>))
    /\ lastEvent' = Event("canvasReady", 0, "")
    /\ UNCHANGED <<envVars, hudPosition, gestures, lastDrop,
                   isGM, systemId, closing, sceneTokens, hitPoints, stress, updates, templates>>

\* The body of Hooks.on("updateActor"): the HUD is re-created when the
\* actor is the displayed one and the controlled adversary token is its.
OnUpdateActor(actor) ==
    IF /\ isGM
       /\ hudOpen
       /\ ActorOf[hudToken] = actor
       /\ GetControlledAdversaryToken # "none"
       /\ ActorOf[GetControlledAdversaryToken] = actor
    THEN CreateOrUpdateGMHUD(GetControlledAdversaryToken)
    ELSE UNCHANGED instanceVars

\* Hooks.on("updateActor") for an update this client did not ask for.
UpdateActor(actor) ==
    /\ OnUpdateActor(actor)
    /\ lastEvent' = Event("updateActor", 0, actor)
    /\ UNCHANGED <<envVars, hudPosition, gestures, lastDrop, worldVars>>

\* Hooks.on("createActiveEffect") and Hooks.on("deleteActiveEffect"), the
\* effect's parent being the actor.
ActiveEffectChanged(actor) ==
    /\ IF /\ isGM
          /\ hudOpen
          /\ ActorOf[hudToken] = actor
          /\ GetControlledAdversaryToken # "none"
       THEN CreateOrUpdateGMHUD(GetControlledAdversaryToken)
       ELSE UNCHANGED instanceVars
    /\ lastEvent' = Event("activeEffect", 0, actor)
    /\ UNCHANGED <<envVars, hudPosition, gestures, lastDrop, worldVars>>

(***************************************************************************)
(* createOrUpdateGMHUD with the close of the previous instance in          *)
(* progress.  The hooks above take the close of the previous instance as   *)
(* finished within their step; here it is started, not awaited, and        *)
(* finishes later.                                                         *)
(***************************************************************************)
\* A hook calls createOrUpdateGMHUD(token), token being null ("none") or a
\* token of the scene: _gmHudApp.close({force: true}) is called on the
\* instance _gmHudApp refers to and is not awaited.
CreateOrUpdateCall(token) ==
    /\ token = "none" \/ token \in sceneTokens
    /\ (isGM /\ hudOpen) => closing < MaxClosing
    /\ CreateOrUpdateGMHUD(token)
    /\ closing' = IF isGM /\ hudOpen THEN closing + 1 ELSE closing
    /\ lastEvent' = Event("createOrUpdate", 0, token)
    /\ UNCHANGED <<envVars, hudPosition, gestures, lastDrop, isGM, systemId, sceneTokens,
                   controlled, hitPoints, stress, updates, templates>>

\* The close() of an instance finishes: its element leaves the document.
CloseSettles ==
    /\ closing > 0
    /\ closing' = closing - 1
    /\ lastEvent' = Event("closed", 0, "")
    /\ UNCHANGED <<envVars, hudVars, dragVars, storeVars, lastCall, hudToken, orphans,
                   rangeVars, isGM, systemId, sceneTokens, controlled, hitPoints, stress,
                   updates, templates>>

(***************************************************************************)
(* Range templates                                                         *)
(***************************************************************************)
IdsOf(docs) == {t.id : t \in docs}

\* _cleanupRangeTemplate's filter: flags.tokenId === tokenId && flags.range === range
RangeTemplateIds(token, range) ==
    IdsOf({t \in templates : t.tokenId = token /\ t.range = range})

ExistingTemplateIdsOfAll(token, actor) == IdsOf(templates)

ExistingTemplateIdsNone(token, actor) == {}

\* _cleanupExistingTemplates' filter:
\* (flags.tokenId === tokenId) || (flags.actorId === actorId)
ExistingTemplateIds(token, actor) ==
    IdsOf({t \in templates : t.tokenId = token \/ t.actorId = actor})

\* A request of a handler of the HUD of token.  next is what the handler
\* does when the request is done: "create" (createEmbeddedDocuments),
\* "state" (_updateRangeButtonState of the clicked button) or "all"
\* (_updateAllRangeButtonStates and data-open = "").  had and overlapped
\* remember whether a template of (token, range) was there at the click and
\* whether another handler was in flight during this one.
Request(op, ids, next, token, range, had, overlapped) ==
    [op |-> op, ids |-> ids, next |-> next, tokenId |-> token,
     actorId |-> IF token = "" THEN "" ELSE ActorOf[token], range |-> range,
     live |-> TRUE, had |-> had, overlapped |-> overlapped]

Overlapped(reqs) == [i \in 1..Len(reqs) |-> [reqs[i] EXCEPT !.overlapped = TRUE]]

Creates(reqs) == {i \in 1..Len(reqs) : reqs[i].op = "create" \/ reqs[i].next = "create"}

UsedIds == IdsOf(templates) \cup UNION {requests[i].ids : i \in 1..Len(requests)}

FreshId == CHOOSE id \in TemplateIds \ UsedIds : \A other \in TemplateIds \ UsedIds : id <= other

ClickRangeAlwaysCreates(range) ==
    /\ hudOpen
    /\ Len(requests) < MaxRequests
    /\ Cardinality(templates) + Cardinality(Creates(requests)) < MaxTemplates
    /\ LET had == HasTemplateForRange(hudToken, range)
           ids == ExistingTemplateIds(hudToken, ActorOf[hudToken])
           req == IF ids # {}
                  THEN Request("delete", ids, "create", hudToken, range, had, requests # <<>>)
                  ELSE Request("create", {}, "state", hudToken, range, had, requests # <<>>)
       IN  requests' = Append(Overlapped(requests), req)
    /\ lastEvent' = Event("click", 0, range)
    /\ UNCHANGED <<envVars, hudVars, dragVars, storeVars, lastCall, hudToken, orphans,
                   active, worldVars>>

\* A left-click on the button of a range, up to the first await that
\* leaves the client: _cleanupRangeTemplate when the token has a template
\* of that range, else _createRangeTemplate, which awaits
\* _cleanupExistingTemplates and asks for the new template at once when
\* that finds nothing to delete.
ClickRange(range) ==
    /\ hudOpen
    /\ Len(requests) < MaxRequests
    /\ Cardinality(templates) + Cardinality(Creates(requests)) < MaxTemplates
    /\ LET had == HasTemplateForRange(hudToken, range)
           ids == IF had THEN RangeTemplateIds(hudToken, range)
                  ELSE ExistingTemplateIds(hudToken, ActorOf[hudToken])
           req == IF had
                  THEN Request("delete", ids, "state", hudToken, range, had, requests # <<>>)
                  ELSE IF ids # {}
                  THEN Request("delete", ids, "create", hudToken, range, had, requests # <<>>)
                  ELSE Request("create", {}, "state", hudToken, range, had, requests # <<>>)
       IN  requests' = Append(Overlapped(requests), req)
    /\ lastEvent' = Event("click", 0, range)
    /\ UNCHANGED <<envVars, hudVars, dragVars, storeVars, lastCall, hudToken, orphans,
                   active, worldVars>>

\* A click on cleanup-templates (the HUD's token and actor) or on
\* cleanup-all-templates (every template of this module): with nothing to
\* delete the handler goes on at once.
CleanupTemplates(all) ==
    /\ hudOpen
    /\ Len(requests) < MaxRequests
    /\ LET ids == IF all THEN IdsOf(templates)
                  ELSE ExistingTemplateIds(hudToken, ActorOf[hudToken])
       IN  IF ids = {}
           THEN /\ active' = AllRangeButtonStates(hudToken)
                /\ dataOpen' = ""
                /\ requests' = Overlapped(requests)
           ELSE /\ requests' = Append(Overlapped(requests),
                                      Request("delete", ids, "all", hudToken,
                                              IF all THEN "all" ELSE "token", FALSE,
                                              requests # <<>>))
                /\ UNCHANGED <<active, dataOpen>>
    /\ lastEvent' = Event("cleanup", 0, IF all THEN "all" ELSE "token")
    /\ UNCHANGED <<envVars, hudOpen, posMode, styleLeft, styleTop, panelStyle, dragVars,
                   storeVars, lastCall, hudToken, orphans, worldVars>>

ButtonStatesKept(states, token, range, docs) == states

\* _updateRangeButtonState(button, range) with the templates docs.
ButtonStatesAfter(states, token, range, docs) ==
    [states EXCEPT ![range] = \E t \in docs : t.tokenId = token /\ t.range = range]

\* The oldest request is done and its handler goes on.  A delete that
\* names a template which is gone already deletes the others (lenient) or
\* is refused as a whole, which the handler catches.
SceneRequestSettles(lenient) ==
    /\ requests # <<>>
    /\ LET r == Head(requests)
           docs == IF r.op = "create"
                   THEN templates \cup {[id |-> FreshId, tokenId |-> r.tokenId,
                                         actorId |-> r.actorId, range |-> r.range]}
                   ELSE IF r.ids \subseteq IdsOf(templates) \/ lenient
                   THEN {t \in templates : t.id \notin r.ids}
                   ELSE templates
       IN  /\ templates' = docs
           /\ requests' = IF r.next = "create"
                          THEN Append(Tail(requests),
                                      [r EXCEPT !.op = "create", !.ids = {}, !.next = "state"])
                          ELSE Tail(requests)
           /\ active' = IF ~r.live \/ r.next = "create" THEN active
                        ELSE IF r.next = "all"
                        THEN [g \in Ranges |-> \E t \in docs : t.tokenId = r.tokenId /\ t.range = g]
                        ELSE ButtonStatesAfter(active, r.tokenId, r.range, docs)
           /\ dataOpen' = IF r.live /\ r.next = "all" THEN "" ELSE dataOpen
           /\ lastEvent' = Event(IF r.next = "create" THEN "rangeStep" ELSE "rangeDone",
                                 0, r.range)
    /\ UNCHANGED <<envVars, hudOpen, posMode, styleLeft, styleTop, panelStyle, dragVars,
                   storeVars, lastCall, hudToken, orphans,
                   isGM, systemId, closing, sceneTokens, controlled, hitPoints, stress, updates>>

(***************************************************************************)
(* HP and Stress                                                           *)
(***************************************************************************)
Binds == {"hp", "stress"}

AdjustedNoUpper(current, delta, min, max) == Max(min, current + delta)

\* _adjustResource: Math.min(max, Math.max(min, current + delta))
AdjustedValue(current, delta, min, max) == Min(max, Max(min, current + delta))

ResourceOf(actor, bind) == IF bind = "hp" THEN hitPoints[actor] ELSE stress[actor]

ClickValueAlwaysUpdates(bind, delta) ==
    /\ hudOpen
    /\ Len(updates) < MaxUpdates
    /\ LET actor == ActorOf[hudToken]
           current == ResourceOf(actor, bind).value
           next == AdjustedValue(current, delta, 0, ResourceOf(actor, bind).max)
       IN  updates' = Append(updates, [actor |-> actor, bind |-> bind,
                                       value |-> next, delta |-> delta])
    /\ lastEvent' = Event(IF delta = 1 THEN "click" ELSE "contextmenu",
                          IF delta = 1 THEN 0 ELSE 2, bind)
    /\ UNCHANGED <<envVars, hudVars, dragVars, storeVars, lastCall, hudToken, orphans,
                   isGM, systemId, closing, sceneTokens, controlled, hitPoints, stress,
                   templates, rangeVars>>

\* A click (delta +1) or a contextmenu (delta -1) on the .value of HP or
\* Stress, up to the await of actor.update: no update is asked for when
\* the adjusted value is the current one.  An update in flight remembers
\* the delta of the click that asked for it.
ClickValue(bind, delta) ==
    /\ hudOpen
    /\ Len(updates) < MaxUpdates
    /\ LET actor == ActorOf[hudToken]
           current == ResourceOf(actor, bind).value
           next == AdjustedValue(current, delta, 0, ResourceOf(actor, bind).max)
       IN  updates' = IF next = current THEN updates
                      ELSE Append(updates, [actor |-> actor, bind |-> bind,
                                            value |-> next, delta |-> delta])
    /\ lastEvent' = Event(IF delta = 1 THEN "click" ELSE "contextmenu",
                          IF delta = 1 THEN 0 ELSE 2, bind)
    /\ UNCHANGED <<envVars, hudVars, dragVars, storeVars, lastCall, hudToken, orphans,
                   isGM, systemId, closing, sceneTokens, controlled, hitPoints, stress,
                   templates, rangeVars>>

\* The oldest actor.update settles: done (the actor holds the value and
\* the updateActor hook runs) or rejected.
ActorUpdateSettles(ok) ==
    /\ updates # <<>>
    /\ updates' = Tail(updates)
    /\ LET u == Head(updates)
       IN  IF ok
           THEN /\ hitPoints' = IF u.bind = "hp"
                                 THEN [hitPoints EXCEPT ![u.actor].value = u.value]
                                 ELSE hitPoints
                /\ stress' = IF u.bind = "stress"
                              THEN [stress EXCEPT ![u.actor].value = u.value]
                              ELSE stress
                /\ OnUpdateActor(u.actor)
                /\ lastEvent' = Event("actorUpdate", 0, u.bind)
           ELSE /\ UNCHANGED <<hitPoints, stress, instanceVars>>
                /\ lastEvent' = Event("actorUpdate", 0, "rejected")
    /\ UNCHANGED <<envVars, hudPosition, gestures, lastDrop,
                   isGM, systemId, closing, sceneTokens, controlled, templates>>

\* A GM in a daggerheart world with the adversary token a1 under control;
\* no HUD exists yet.
Init ==
    /\ \E v \in Viewports : innerWidth = v[1] /\ innerHeight = v[2]
    /\ hudW \in HudWidths
    /\ hudH \in HudHeights
    /\ scrollH = [p \in Panels |-> IF p = "features" THEN Px(600) ELSE Px(100)]
    /\ pointerX = Px(400)
    /\ pointerY = Px(600)
    /\ hudOpen = FALSE
    /\ posMode = "default"
    /\ styleLeft = 0
    /\ styleTop = 0
    /\ dataOpen = ""
    /\ panelStyle = [p \in Panels |-> NoStyle]
    /\ isDragging = FALSE
    /\ thisIsDragging = FALSE
    /\ startX = 0
    /\ startY = 0
    /\ startLeft = 0
    /\ startTop = 0
    /\ listening = FALSE
    /\ resizeBound = FALSE
    /\ hudPosition \in InitialSaved
    /\ pending = <<>>
    /\ raf = {}
    /\ gestures = 0
    /\ lastDrop = NoPos
    /\ lastCall = [p \in PanelArgs |-> NoCall]
    /\ lastEvent = NoEvent
    /\ hudToken = "none"
    /\ orphans = 0
    /\ isGM = TRUE
    /\ systemId = "daggerheart"
    /\ sceneTokens = Tokens
    /\ controlled = <<"a1">>
    /\ hitPoints = [a \in Actors |-> [value |-> 0, max |-> 3]]
    /\ stress = [a \in Actors |-> [value |-> 0, max |-> 3]]
    /\ updates = <<>>
    /\ templates = {}
    /\ requests = <<>>
    /\ active = [r \in Ranges |-> FALSE]
    /\ closing = 0

Next ==
    \/ CreateHUD
    \/ CloseHUD
    \/ \E b \in Buttons, t \in Targets : PointerDown(b, t, MaxGestures)
    \/ \E pt \in PointerPoints : PointerMove(pt[1], pt[2])
    \/ PointerUp
    \/ \E ok \in BOOLEAN : SetFlagSettles(ok)
    \/ AnimationFrame
    \/ \E v \in Viewports : Resize(v[1], v[2])

Spec == Init /\ [][Next]_vars

\* A HUD that has just been rendered for a1, at its default place or at a
\* restored one.
InitHud ==
    /\ innerWidth = Px(1000)
    /\ innerHeight = Px(800)
    /\ hudW \in HudWidths
    /\ hudH \in HudHeights
    /\ scrollH = [p \in Panels |-> IF p = "features" THEN Px(600) ELSE Px(100)]
    /\ pointerX = Px(400)
    /\ pointerY = Px(600)
    /\ hudOpen = TRUE
    /\ \/ hudPosition = NoPos /\ posMode = "default" /\ styleLeft = 0 /\ styleTop = 0
       \/ /\ hudPosition = Pos(Px(100), Px(100))
          /\ posMode = "fixed"
          /\ styleLeft = Px(100)
          /\ styleTop = Px(100)
    /\ dataOpen = ""
    /\ panelStyle = [p \in Panels |-> NoStyle]
    /\ isDragging = FALSE
    /\ thisIsDragging = FALSE
    /\ startX = 0
    /\ startY = 0
    /\ startLeft = 0
    /\ startTop = 0
    /\ listening = FALSE
    /\ resizeBound = TRUE
    /\ pending = <<>>
    /\ raf = {}
    /\ gestures = 0
    /\ lastDrop = NoPos
    /\ lastCall = [p \in PanelArgs |-> NoCall]
    /\ lastEvent = Event("create", 0, "")
    /\ hudToken = "a1"
    /\ orphans = 0
    /\ isGM = TRUE
    /\ systemId = "daggerheart"
    /\ sceneTokens = Tokens
    /\ controlled = <<"a1">>
    /\ hitPoints = [a \in Actors |-> [value |-> 0, max |-> 3]]
    /\ stress = [a \in Actors |-> [value |-> 0, max |-> 3]]
    /\ updates = <<>>
    /\ templates = {}
    /\ requests = <<>>
    /\ active = [r \in Ranges |-> FALSE]
    /\ closing = 0

\* That HUD with its popovers in use, over fewer drags.
NextHud ==
    \/ \E t \in {"core", "outside"} : PointerDown(0, t, MaxHudGestures)
    \/ \E pt \in PointerPoints : PointerMove(pt[1], pt[2])
    \/ PointerUp
    \/ \E ok \in BOOLEAN : SetFlagSettles(ok)
    \/ AnimationFrame
    \/ \E v \in Viewports : Resize(v[1], v[2])
    \/ \E p \in Panels : TogglePanel(p)

SpecHud == InitHud /\ [][NextHud]_vars

\* The drag controller while the displayed actor is updated from elsewhere,
\* which re-creates the HUD at any moment of a gesture, while an actor that
\* is not displayed is updated, and while the window is resized in the
\* middle of a gesture (resizes between gestures are part of Spec).
NextLife ==
    \/ CreateHUD
    \/ \E b \in Buttons, t \in Targets : PointerDown(b, t, MaxGestures)
    \/ \E pt \in PointerPoints : PointerMove(pt[1], pt[2])
    \/ PointerUp
    \/ \E ok \in BOOLEAN : SetFlagSettles(ok)
    \/ AnimationFrame
    \/ \E a \in {"goblin", "ogre"} : UpdateActor(a)
    \/ (isDragging /\ \E v \in Viewports : Resize(v[1], v[2]))

SpecLife == Init /\ [][NextLife]_vars

\* The module is loaded for some user of some game system: nothing is
\* controlled, no HUD exists.
InitTokens ==
    /\ innerWidth = Px(1000)
    /\ innerHeight = Px(800)
    /\ hudW \in HudWidths
    /\ hudH \in HudHeights
    /\ scrollH = [p \in Panels |-> IF p = "features" THEN Px(600) ELSE Px(100)]
    /\ pointerX = Px(400)
    /\ pointerY = Px(600)
    /\ hudOpen = FALSE
    /\ posMode = "default"
    /\ styleLeft = 0
    /\ styleTop = 0
    /\ dataOpen = ""
    /\ panelStyle = [p \in Panels |-> NoStyle]
    /\ isDragging = FALSE
    /\ thisIsDragging = FALSE
    /\ startX = 0
    /\ startY = 0
    /\ startLeft = 0
    /\ startTop = 0
    /\ listening = FALSE
    /\ resizeBound = FALSE
    /\ hudPosition = NoPos
    /\ pending = <<>>
    /\ raf = {}
    /\ gestures = 0
    /\ lastDrop = NoPos
    /\ lastCall = [p \in PanelArgs |-> NoCall]
    /\ lastEvent = NoEvent
    /\ hudToken = "none"
    /\ orphans = 0
    /\ isGM \in BOOLEAN
    /\ systemId \in Systems
    /\ sceneTokens = Tokens
    /\ controlled = <<>>
    /\ hitPoints = [a \in Actors |-> [value |-> 0, max |-> 3]]
    /\ stress = [a \in Actors |-> [value |-> 0, max |-> 3]]
    /\ updates = <<>>
    /\ templates = {}
    /\ requests = <<>>
    /\ active = [r \in Ranges |-> FALSE]
    /\ closing = 0

NextTokens ==
    \/ \E t \in Tokens, c \in BOOLEAN : ControlToken(t, c)
    \/ \E t \in Tokens : DeleteToken(t)
    \/ \E keep \in BOOLEAN : CanvasReady(keep)
    \/ \E a \in Actors : UpdateActor(a)
    \/ \E a \in Actors : ActiveEffectChanged(a)

SpecTokens == InitTokens /\ [][NextTokens]_vars

\* Selecting and deselecting tokens, nothing else.
NextSelect == \E t \in Tokens, c \in BOOLEAN : ControlToken(t, c)

SpecSelect == InitTokens /\ [][NextSelect]_vars

\* A HUD for the adversary a1, whose HP and Stress are anywhere.
InitResources ==
    /\ innerWidth = Px(1000)
    /\ innerHeight = Px(800)
    /\ hudW \in HudWidths
    /\ hudH \in HudHeights
    /\ scrollH = [p \in Panels |-> IF p = "features" THEN Px(600) ELSE Px(100)]
    /\ pointerX = Px(400)
    /\ pointerY = Px(600)
    /\ hudOpen = TRUE
    /\ posMode = "default"
    /\ styleLeft = 0
    /\ styleTop = 0
    /\ dataOpen = ""
    /\ panelStyle = [p \in Panels |-> NoStyle]
    /\ isDragging = FALSE
    /\ thisIsDragging = FALSE
    /\ startX = 0
    /\ startY = 0
    /\ startLeft = 0
    /\ startTop = 0
    /\ listening = FALSE
    /\ resizeBound = TRUE
    /\ hudPosition = NoPos
    /\ pending = <<>>
    /\ raf = {}
    /\ gestures = 0
    /\ lastDrop = NoPos
    /\ lastCall = [p \in PanelArgs |-> NoCall]
    /\ lastEvent = NoEvent
    /\ hudToken = "a1"
    /\ orphans = 0
    /\ isGM = TRUE
    /\ systemId = "daggerheart"
    /\ sceneTokens = Tokens
    /\ controlled = <<"a1">>
    /\ \E hp \in ResourceValues, hpMax \in ResourceMaxes :
          hitPoints = [a \in Actors |-> IF a = "goblin" THEN [value |-> hp, max |-> hpMax]
                                        ELSE [value |-> 0, max |-> 3]]
    /\ \E st \in ResourceValues, stMax \in ResourceMaxes :
          stress = [a \in Actors |-> IF a = "goblin" THEN [value |-> st, max |-> stMax]
                                     ELSE [value |-> 0, max |-> 3]]
    /\ updates = <<>>
    /\ templates = {}
    /\ requests = <<>>
    /\ active = [r \in Ranges |-> FALSE]
    /\ closing = 0

NextResources ==
    \/ \E bind \in Binds, delta \in {1, -1} : ClickValue(bind, delta)
    \/ \E ok \in BOOLEAN : ActorUpdateSettles(ok)

SpecResources == InitResources /\ [][NextResources]_vars

(***************************************************************************)
(* Claims about setGMPanelOpenDirection.  lastCall[p] holds the inputs and *)
(* intermediate values of the latest call on panel p; panelStyle[p] is     *)
(* what that call left on the panel.                                       *)
(***************************************************************************)
Placed(p) == lastCall[p].outcome = "placed"

\* maxAllowed = min(0.7 * viewportHeight, 500), written out from the claim.
MaxAllowedOf(vh) == IF 7 * vh <= Px(500) * 10 THEN (7 * vh) \div 10 ELSE Px(500)

\* The space on the side the panel opens to.
ChosenSpace(c) == IF c.dir = "down" THEN c.spaceBelow ELSE c.spaceAbove

\* C1 as stated: for every viewport height and content height the maximum
\* height applied to the panel is at least 180 px.
C1_MaxHeightAtLeast180 ==
    \A p \in Panels : Placed(p) => panelStyle[p].maxh >= Px(180)

\* C1 amended: the applied maximum height is at least min(180, maxAllowed);
\* it is at least 180 px whenever 0.7 * viewportHeight >= 180.
C1_MaxHeightFloor ==
    \A p \in Panels : Placed(p) =>
        /\ panelStyle[p].maxh >= Min(Px(180), MaxAllowedOf(lastCall[p].viewportHeight))
        /\ (7 * lastCall[p].viewportHeight >= Px(180) * 10 => panelStyle[p].maxh >= Px(180))

\* A small window in which the floor of 180 px is cut down by maxAllowed.
C1_Witness ==
    \E p \in Panels :
        /\ Placed(p)
        /\ lastCall[p].viewportHeight = Px(200)
        /\ panelStyle[p].maxh = Px(140)

\* C2: down whenever spaceBelow >= need; up whenever spaceBelow < need and
\* spaceAbove >= need; otherwise the side with strictly more room, equal
\* room giving down.  spaceAbove is the container's top, spaceBelow the
\* viewport height minus the container's bottom.
C2_Direction ==
    \A p \in Panels : Placed(p) =>
        LET c == lastCall[p] IN
        /\ c.spaceAbove = RectTop
        /\ c.spaceBelow = innerHeight - (RectTop + hudH)
        /\ panelStyle[p].dir \in {"down", "up"}
        /\ (c.spaceBelow >= c.need => panelStyle[p].dir = "down")
        /\ (c.spaceBelow < c.need /\ c.spaceAbove >= c.need => panelStyle[p].dir = "up")
        /\ (c.spaceBelow < c.need /\ c.spaceAbove < c.need /\ c.spaceBelow > c.spaceAbove
               => panelStyle[p].dir = "down")
        /\ (c.spaceBelow < c.need /\ c.spaceAbove < c.need /\ c.spaceAbove > c.spaceBelow
               => panelStyle[p].dir = "up")
        /\ (c.spaceBelow < c.need /\ c.spaceAbove < c.need /\ c.spaceAbove = c.spaceBelow
               => panelStyle[p].dir = "down")

\* Equal room on both sides, neither enough: the panel opens down.
C2_Witness ==
    \E p \in Panels :
        /\ Placed(p)
        /\ lastCall[p].spaceAbove = lastCall[p].spaceBelow
        /\ lastCall[p].spaceBelow < lastCall[p].need
        /\ panelStyle[p].dir = "down"

\* C3 as stated: 220 <= need <= maxAllowed for every content height and
\* viewport height, and need is the content height when that lies in
\* [220, maxAllowed].
C3_NeedWithinInterval ==
    \A p \in Panels : Placed(p) =>
        LET c == lastCall[p]
            maxAllowed == MaxAllowedOf(c.viewportHeight)
        IN  /\ Px(220) <= c.need
            /\ c.need <= maxAllowed
            /\ (Px(220) <= c.contentHeight /\ c.contentHeight <= maxAllowed
                   => c.need = c.contentHeight)

\* C3 amended: need is at least 220 and at most max(220, maxAllowed); it is
\* at most maxAllowed whenever maxAllowed >= 220; and it is the content
\* height (scrollHeight, or 320 when scrollHeight is 0) when that lies in
\* [220, maxAllowed].
C3_NeedClamped ==
    \A p \in Panels : Placed(p) =>
        LET c == lastCall[p]
            maxAllowed == MaxAllowedOf(c.viewportHeight)
        IN  /\ c.contentHeight = (IF c.scrollHeight = 0 THEN Px(320) ELSE c.scrollHeight)
            /\ Px(220) <= c.need
            /\ c.need <= Max(Px(220), maxAllowed)
            /\ (maxAllowed >= Px(220) => c.need <= maxAllowed)
            /\ (Px(220) <= c.contentHeight /\ c.contentHeight <= maxAllowed
                   => c.need = c.contentHeight)
            /\ (c.contentHeight < Px(220) => c.need = Px(220))
            /\ (c.contentHeight > maxAllowed /\ maxAllowed >= Px(220) => c.need = maxAllowed)

\* A content height strictly inside the interval is taken as it is.
C3_Witness ==
    \E p \in Panels :
        /\ Placed(p)
        /\ lastCall[p].scrollHeight = Px(300)
        /\ lastCall[p].viewportHeight = Px(800)
        /\ lastCall[p].need = Px(300)

\* C4: the applied maximum height is max(180, S - 12) clamped to
\* maxAllowed, S being spaceBelow for "down" and spaceAbove for "up"; it
\* never exceeds maxAllowed.
C4_MaxHeightFormula ==
    \A p \in Panels : Placed(p) =>
        LET c == lastCall[p]
            maxAllowed == MaxAllowedOf(c.viewportHeight)
            S == IF panelStyle[p].dir = "down" THEN c.spaceBelow ELSE c.spaceAbove
        IN  /\ panelStyle[p].maxh = Min(Max(Px(180), S - Px(12)), maxAllowed)
            /\ panelStyle[p].maxh <= maxAllowed

\* A call in which the clamp to maxAllowed is what decides the height.
C4_Witness ==
    \E p \in Panels :
        /\ Placed(p)
        /\ ChosenSpace(lastCall[p]) - Px(12) > MaxAllowedOf(lastCall[p].viewportHeight)
        /\ panelStyle[p].maxh = Px(500)

\* The scenario of C5 as the inputs of a call.
C5_Scenario(p) ==
    /\ Placed(p)
    /\ lastCall[p].scrollHeight = Px(600)
    /\ lastCall[p].viewportHeight = Px(800)
    /\ lastCall[p].spaceAbove = Px(500)
    /\ lastCall[p].spaceBelow = Px(240)

\* C5: content height 600, viewport height 800, container top 500 and
\* bottom 560: the panel opens up with a maximum height of 488 px.
C5_ScenarioUp488 ==
    \A p \in Panels : C5_Scenario(p) =>
        /\ panelStyle[p].dir = "up"
        /\ panelStyle[p].maxh = Px(488)

C5_Witness ==
    \E p \in Panels :
        /\ C5_Scenario(p)
        /\ RectTop = Px(500)
        /\ RectTop + hudH = Px(560)
        /\ panelStyle[p].dir = "up"

\* C6: a call without a panel, or on a panel for which no container is
\* found, sets no direction attribute and no size variable and changes
\* nothing else.
C6_MissingElementNoOp ==
    [][\A p \in PanelArgs :
          (lastCall'[p] # lastCall[p] /\ lastCall'[p].outcome \in {"no-panel", "no-container"})
              => UNCHANGED <<panelStyle, envVars, hudVars, dragVars, storeVars>>]_vars

\* Both early returns were taken and the panel carries nothing.
C6_Witness ==
    /\ lastCall["null"].outcome = "no-panel"
    /\ lastCall["features"].outcome = "no-container"
    /\ panelStyle["features"] = NoStyle

(***************************************************************************)
(* Claims about the drag controller and the persisted position.            *)
(* lastEvent names the event handled by the step that led to a state.      *)
(***************************************************************************)
DownOnHandle == Event("pointerdown", 0, "core")

DragEnded == Event("pointerup", 0, "ended")

\* The position written for a drop at d: whole pixels.
Rounded(d) == Pos(Round(d.left), Round(d.top))

\* v kept within [0, limit], the lower end winning when limit < 0.
Within(v, limit) == IF v > limit THEN (IF limit < 0 THEN 0 ELSE limit)
                    ELSE IF v < 0 THEN 0 ELSE v

InRange(v, limit) == 0 <= v /\ v <= limit

\* C7: the controller leaves Idle only on a pointerdown on the handle with
\* button 0 and a target outside the excluded elements; any other
\* pointerdown leaves the drag state, the container position and the
\* persisted position as they were.
C7_DragStartsOnlyOnHandle ==
    [][/\ (~isDragging /\ isDragging') => lastEvent' = DownOnHandle
       /\ lastEvent' = DownOnHandle => isDragging' /\ listening'
       /\ (lastEvent'.type = "pointerdown" /\ lastEvent' # DownOnHandle)
             => /\ isDragging' = isDragging
                /\ listening' = listening
                /\ UNCHANGED <<posMode, styleLeft, styleTop, innerWidth, innerHeight>>
                /\ UNCHANGED <<hudPosition, pending>>]_vars

\* A pointerdown on the handle has started a drag.
C7_Witness ==
    /\ lastEvent = DownOnHandle
    /\ isDragging
    /\ listening
    /\ startLeft = RectLeft
    /\ startX = pointerX

\* The state right after a pointermove of a drag in progress.
Moved == lastEvent.type = "pointermove" /\ isDragging /\ listening

\* C8 as stated: every pointermove of a drag puts the container at
\* originStart + (currentPointer - pointerStart), and for every viewport
\* size left is in [0, viewportWidth - 200] and top in
\* [0, viewportHeight - 200].
C8_MoveInsideViewport ==
    Moved =>
        /\ 0 <= RectLeft /\ RectLeft <= innerWidth - Px(200)
        /\ 0 <= RectTop /\ RectTop <= innerHeight - Px(200)
        /\ InRange(startLeft + (pointerX - startX), innerWidth - Px(200))
              => RectLeft = startLeft + (pointerX - startX)
        /\ InRange(startTop + (pointerY - startY), innerHeight - Px(200))
              => RectTop = startTop + (pointerY - startY)

\* C8 amended: every pointermove of a drag puts the container at
\* max(0, min(originStart + (currentPointer - pointerStart), viewport - 200))
\* on each axis, so left is in [0, max(0, viewportWidth - 200)] and top in
\* [0, max(0, viewportHeight - 200)]; originStart and pointerStart are what
\* the gesture's pointerdown captured.
C8_MoveClamped ==
    /\ [](Moved =>
            /\ posMode = "fixed"
            /\ RectLeft = Within(startLeft + (pointerX - startX), innerWidth - Px(200))
            /\ RectTop = Within(startTop + (pointerY - startY), innerHeight - Px(200))
            /\ 0 <= RectLeft /\ RectLeft <= Max(0, innerWidth - Px(200))
            /\ 0 <= RectTop /\ RectTop <= Max(0, innerHeight - Px(200)))
    /\ [][lastEvent' = DownOnHandle =>
            /\ startX' = pointerX /\ startY' = pointerY
            /\ startLeft' = RectLeft /\ startTop' = RectTop
            /\ UNCHANGED <<posMode, styleLeft, styleTop, pointerX, pointerY>>]_vars

\* Origin (100,100), pointer delta (+50,+30): the container is at (150,130).
C8_Witness ==
    /\ Moved
    /\ startLeft = Px(100) /\ startTop = Px(100)
    /\ pointerX - startX = Px(50) /\ pointerY - startY = Px(30)
    /\ RectLeft = Px(150) /\ RectTop = Px(130)

\* C9 as stated: the value written at the end of a drag is exactly the
\* container's position (L,T), and a later _restorePosition places the
\* container at that same (L,T).
C9_RoundTripExact ==
    /\ lastEvent = DragEnded => pending[Len(pending)].pos = Pos(RectLeft, RectTop)
    /\ (lastEvent.type = "create" /\ lastDrop.set)
          => RectLeft = lastDrop.left /\ RectTop = lastDrop.top

\* C9 amended: the value written at the end of a drag at (L,T) is
\* {left: round(L), top: round(T)}; once that write has succeeded the flag
\* holds it, and a later _restorePosition places the container at that
\* value clamped into the viewport of the moment, which is (L,T) itself
\* when L and T are whole pixels within [0, viewport - 200].
C9_RoundTripRounded ==
    /\ lastEvent = DragEnded =>
          /\ lastDrop = Pos(RectLeft, RectTop)
          /\ pending[Len(pending)].pos = Rounded(lastDrop)
    /\ (lastEvent = Event("settle", 0, "ok") /\ pending = <<>> /\ lastDrop.set)
          => hudPosition = Rounded(lastDrop)
    /\ (lastEvent.type = "create" /\ lastDrop.set /\ hudPosition = Rounded(lastDrop)) =>
          /\ posMode = "fixed"
          /\ RectLeft = Within(Round(lastDrop.left), innerWidth - Px(200))
          /\ RectTop = Within(Round(lastDrop.top), innerHeight - Px(200))
          /\ (lastDrop = Rounded(lastDrop)
                 /\ InRange(lastDrop.left, innerWidth - Px(200))
                 /\ InRange(lastDrop.top, innerHeight - Px(200)))
                => (RectLeft = lastDrop.left /\ RectTop = lastDrop.top)

\* A drag from (100,100) was dropped at (150,130), saved, and a new HUD
\* instance is restored there.
C9_Witness ==
    /\ lastEvent.type = "create"
    /\ lastDrop = Pos(Px(150), Px(130))
    /\ hudPosition = lastDrop
    /\ RectLeft = Px(150) /\ RectTop = Px(130)

\* C10: setFlag("hudPosition") is called only at release: no pointermove
\* and no pointerdown calls it or changes the flag, each completed gesture
\* calls it exactly once, and the value is the container's position at the
\* pointerup (in the whole pixels the flag is written in), not an earlier
\* one.
C10_WriteOnlyAtRelease ==
    [][/\ Len(pending') > Len(pending) =>
            /\ lastEvent' = DragEnded
            /\ isDragging /\ ~isDragging'
            /\ Len(pending') = Len(pending) + 1
            /\ SubSeq(pending', 1, Len(pending)) = pending
            /\ pending'[Len(pending')].pos = Pos(Round(RectLeft), Round(RectTop))
            /\ UNCHANGED <<posMode, styleLeft, styleTop, innerWidth, innerHeight>>
       /\ lastEvent'.type \in {"pointermove", "pointerdown"} =>
            UNCHANGED <<pending, hudPosition>>
       /\ (isDragging /\ ~isDragging') =>
            /\ lastEvent' = DragEnded
            /\ Len(pending') = Len(pending) + 1]_vars

\* A drag that moved the container has ended: one write, with the position
\* of the release and not the one the drag started from.
C10_Witness ==
    /\ lastEvent = DragEnded
    /\ gestures = 1
    /\ Len(pending) = 1
    /\ pending[1].pos = Pos(Round(RectLeft), Round(RectTop))
    /\ pending[1].pos # Pos(Round(startLeft), Round(startTop))

(***************************************************************************)
(* Claims about drag sessions.  A session is a closure of _enableDragging  *)
(* whose isDragging is true: that of the open instance (isDragging) and    *)
(* those of closed instances whose listeners are still on window (orphans).*)
(***************************************************************************)
Sessions == orphans + (IF isDragging THEN 1 ELSE 0)

\* The step replaced the HUD instance by a new one (or by none): a call of
\* createOrUpdateGMHUD, or an update of the displayed actor.
Replaced ==
    \/ lastEvent'.type \in {"create", "close"}
    \/ lastEvent'.type = "updateActor" /\ hudOpen /\ lastEvent'.target = ActorOf[hudToken]

\* C11: an instance has at most one drag session at a time, whatever the
\* renders and pointer events: its session is active exactly while its one
\* onMove and one onUp are registered, a pointermove places the container
\* from the one (pointerStart, originStart) pair captured last, a pointerup
\* ends the instance's session with exactly one write, and a render starts
\* the new instance without a session.
C11_OneSessionPerInstance ==
    /\ [](/\ isDragging <=> listening
          /\ isDragging => hudOpen
          /\ Sessions <= gestures)
    /\ [][/\ (lastEvent'.type = "pointermove" /\ isDragging) =>
                /\ RectLeft' = Within(startLeft + (pointerX' - startX), innerWidth - Px(200))
                /\ RectTop' = Within(startTop + (pointerY' - startY), innerHeight - Px(200))
                /\ UNCHANGED <<startX, startY, startLeft, startTop, isDragging, orphans>>
          /\ lastEvent'.type = "pointerup" =>
                /\ ~isDragging' /\ ~listening'
                /\ orphans' = 0
                /\ Len(pending') = Len(pending) + Sessions
          /\ lastEvent' = DownOnHandle =>
                /\ isDragging' /\ listening'
                /\ Sessions' = orphans + 1
          /\ (Replaced /\ hudOpen') =>
                /\ ~isDragging' /\ ~listening'
                /\ Sessions' = Sessions]_vars

\* A render in the middle of a drag, a new drag on the new instance, one
\* pointerup: each of the two instances has ended its one session.
C11_Witness ==
    /\ lastEvent = DragEnded
    /\ gestures = 2
    /\ Len(pending) = 2
    /\ ~pending[1].live
    /\ pending[2].live
    /\ ~isDragging

\* C12: a session ends at a pointerup and at nothing else (after a render
\* the closed instance's session goes on), and no setFlag call is made
\* before that pointerup; an accepted pointerdown on the handle of a
\* controller that is still Dragging starts afresh: pointerStart and
\* originStart are captured again from this pointerdown and the
\* container's position, and nothing is written for the gesture left
\* behind.
C12_DraggingUntilPointerUp ==
    [][/\ lastEvent'.type # "pointerup" =>
            /\ Sessions' >= Sessions
            /\ Len(pending') <= Len(pending)
            /\ (isDragging /\ ~Replaced) => (isDragging' /\ listening')
       /\ (isDragging /\ lastEvent' = DownOnHandle) =>
            /\ isDragging' /\ listening'
            /\ startX' = pointerX /\ startY' = pointerY
            /\ startLeft' = RectLeft /\ startTop' = RectTop
            /\ UNCHANGED <<pending, hudPosition, posMode, styleLeft, styleTop, orphans>>]_vars

\* A drag moved the container and got no pointerup; the next pointerdown
\* on the handle has captured the moved position and the pointer anew.
C12_Witness ==
    /\ lastEvent = DownOnHandle
    /\ isDragging
    /\ gestures = 2
    /\ orphans = 0
    /\ pending = <<>>
    /\ ~lastDrop.set
    /\ posMode = "fixed"
    /\ startX = Px(450) /\ startY = Px(630)
    /\ startLeft = RectLeft /\ startTop = RectTop

\* C13: when the setFlag of a drag end is rejected, onUp catches it and
\* goes on to its requestAnimationFrame; the flag keeps its previous
\* value, the container stays where it is (right after the release: where
\* it was dropped) and the controller's state is not touched (right after
\* the release: Idle).
C13_WriteFailureCaught ==
    [][lastEvent' = Event("settle", 0, "rejected") =>
          /\ hudPosition' = hudPosition
          /\ pending' = Tail(pending)
          /\ UNCHANGED <<posMode, styleLeft, styleTop, innerWidth, innerHeight, hudOpen>>
          /\ UNCHANGED dragVars
          /\ Head(pending).live => "dragend" \in raf'
          /\ lastEvent = DragEnded =>
                /\ ~isDragging' /\ ~listening'
                /\ Pos(RectLeft', RectTop') = lastDrop']_vars

\* The HUD was restored at (100,100), dragged to (150,130) and released,
\* and the write was rejected.
C13_Witness ==
    /\ lastEvent = Event("settle", 0, "rejected")
    /\ hudPosition = Pos(Px(100), Px(100))
    /\ lastDrop = Pos(Px(150), Px(130))
    /\ RectLeft = Px(150) /\ RectTop = Px(130)
    /\ ~isDragging
    /\ pending = <<>>
    /\ "dragend" \in raf

\* C14: at the end of a drag the controller is Idle and its listeners are
\* off before the write settles; with a write in flight a pointerdown on
\* the handle starts a drag and a pointermove moves the container as
\* always; the setFlag of the next release is called at once, behind the
\* one in flight; and a write that settles touches neither the controller
\* nor the container's position.
C14_NextGestureNotBlocked ==
    /\ [](lastEvent = DragEnded => (~isDragging /\ ~listening /\ pending # <<>>))
    /\ [][/\ lastEvent'.type = "settle" =>
                /\ UNCHANGED dragVars
                /\ UNCHANGED <<posMode, styleLeft, styleTop, gestures>>
          /\ (lastEvent' = DownOnHandle /\ pending # <<>>) =>
                /\ isDragging' /\ listening'
                /\ pending' = pending
          /\ (lastEvent'.type = "pointermove" /\ isDragging /\ pending # <<>>) =>
                /\ RectLeft' = Within(startLeft + (pointerX' - startX), innerWidth - Px(200))
                /\ RectTop' = Within(startTop + (pointerY' - startY), innerHeight - Px(200))
                /\ pending' = pending
          /\ (lastEvent' = DragEnded /\ pending # <<>>) =>
                /\ Len(pending') = Len(pending) + 1
                /\ SubSeq(pending', 1, Len(pending)) = pending]_vars

\* The second gesture has moved the container away from where the first
\* one dropped it, and the first one's write is still in flight.
C14_Witness ==
    /\ Moved
    /\ gestures = 2
    /\ Len(pending) = 1
    /\ pending[1].pos = Rounded(lastDrop)
    /\ Pos(RectLeft, RectTop) # lastDrop

\* One drag of that HUD with the features popover in use.  The browser
\* runs the animation frame callbacks it holds; nothing makes the store
\* answer a write.
NextFrames ==
    \/ PointerDown(0, "core", MaxHudGestures)
    \/ \E pt \in PointerPoints : PointerMove(pt[1], pt[2])
    \/ PointerUp
    \/ \E ok \in BOOLEAN : SetFlagSettles(ok)
    \/ AnimationFrame
    \/ TogglePanel("features")

SpecFrames == InitHud /\ [][NextFrames]_vars /\ WF_vars(AnimationFrame)

\* Calls of createOrUpdateGMHUD from the hooks, with any token of the
\* scene or none, the closes they start finishing at any time, and the GM
\* opening and closing the panels of the instance shown.
NextClose ==
    \/ \E t \in Tokens \cup {"none"} : CreateOrUpdateCall(t)
    \/ CloseSettles
    \/ \E p \in Panels : TogglePanel(p)

SpecClose == InitTokens /\ [][NextClose]_vars

\* A GM's HUD for the adversary a1 in a scene with a second token of the
\* same actor and a token of another adversary; no template yet.
InitRange ==
    /\ innerWidth = Px(1000)
    /\ innerHeight = Px(800)
    /\ hudW \in HudWidths
    /\ hudH \in HudHeights
    /\ scrollH = [p \in Panels |-> IF p = "features" THEN Px(600) ELSE Px(100)]
    /\ pointerX = Px(400)
    /\ pointerY = Px(600)
    /\ hudOpen = TRUE
    /\ posMode = "default"
    /\ styleLeft = 0
    /\ styleTop = 0
    /\ dataOpen = ""
    /\ panelStyle = [p \in Panels |-> NoStyle]
    /\ isDragging = FALSE
    /\ thisIsDragging = FALSE
    /\ startX = 0
    /\ startY = 0
    /\ startLeft = 0
    /\ startTop = 0
    /\ listening = FALSE
    /\ resizeBound = TRUE
    /\ hudPosition = NoPos
    /\ pending = <<>>
    /\ raf = {}
    /\ gestures = 0
    /\ lastDrop = NoPos
    /\ lastCall = [p \in PanelArgs |-> NoCall]
    /\ lastEvent = Event("create", 0, "")
    /\ hudToken = "a1"
    /\ orphans = 0
    /\ isGM = TRUE
    /\ systemId = "daggerheart"
    /\ sceneTokens = {"a1", "a2", "a3"}
    /\ controlled = <<"a1">>
    /\ hitPoints = [a \in Actors |-> [value |-> 0, max |-> 3]]
    /\ stress = [a \in Actors |-> [value |-> 0, max |-> 3]]
    /\ updates = <<>>
    /\ templates = {}
    /\ requests = <<>>
    /\ active = [r \in Ranges |-> FALSE]
    /\ closing = 0

\* The range buttons and the cleanup-templates button of the HUD, the
\* scene answering, and the GM adding the other adversaries to the
\* selection, which moves the HUD to them.
NextRange ==
    \/ \E r \in Ranges : ClickRange(r)
    \/ CleanupTemplates(FALSE)
    \/ \E lenient \in BOOLEAN : SceneRequestSettles(lenient)
    \/ \E t \in {"a2", "a3"} : ControlToken(t, TRUE)

SpecRange == InitRange /\ [][NextRange]_vars

(***************************************************************************)
(* Claims about the popovers.  lastCall[p] is what the latest              *)
(* setGMPanelOpenDirection call on panel p measured.                       *)
(***************************************************************************)
\* A call on p has just measured the container where it is after the step.
PlacedNow(p) ==
    /\ lastCall'[p].outcome = "placed"
    /\ lastCall'[p].viewportHeight = innerHeight'
    /\ lastCall'[p].spaceAbove = RectTop'
    /\ lastCall'[p].spaceBelow = innerHeight' - (RectTop' + hudH')
    /\ panelStyle'[p].dir = lastCall'[p].dir
    /\ panelStyle'[p].maxh = lastCall'[p].finalMaxHeight

NotPlaced(p) == lastCall'[p] = lastCall[p] /\ panelStyle'[p] = panelStyle[p]

ToggledOpen(p) == lastEvent' = Event("toggle", 0, p) /\ dataOpen' = p

\* C15 as stated: the placement is run for the open popover, features or
\* range, when it is toggled open, when the window is resized while it is
\* open, and when a drag ends while it is open.
C15_PlacedOnEveryTrigger ==
    [][\A p \in Panels :
          /\ ToggledOpen(p) => p \in raf'
          /\ (lastEvent'.type = "frame" /\ p \in raf) => PlacedNow(p)
          /\ (lastEvent'.type = "resize" /\ dataOpen = p) => PlacedNow(p)
          /\ (lastEvent'.type = "settle" /\ Head(pending).live) => "dragend" \in raf'
          /\ (lastEvent'.type = "frame" /\ "dragend" \in raf /\ dataOpen = p)
                => PlacedNow(p)]_vars

\* C15 amended: a popover that is toggled open, features or range, is
\* placed in the next animation frame; a window resize places the features
\* panel when it is open and no drag is moving the HUD, and places nothing
\* otherwise; the end of a drag places the features panel when it is open,
\* in the animation frame after the position write has settled, and never
\* the range panel.
C15_PlacedOnTriggers ==
    [][/\ \A p \in Panels :
            /\ ToggledOpen(p) => (p \in raf' /\ NotPlaced(p))
            /\ (lastEvent'.type = "frame" /\ p \in raf) => PlacedNow(p)
            /\ (lastEvent'.type = "frame" /\ p \notin raf
                   /\ ~(p = "features" /\ "dragend" \in raf /\ dataOpen = "features"))
                  => NotPlaced(p)
       /\ lastEvent'.type = "resize" =>
            /\ (dataOpen = "features" /\ ~thisIsDragging) => PlacedNow("features")
            /\ (dataOpen # "features" \/ thisIsDragging) => NotPlaced("features")
            /\ NotPlaced("range")
       /\ lastEvent' = DragEnded => (NotPlaced("features") /\ NotPlaced("range"))
       /\ (lastEvent'.type = "settle" /\ Head(pending).live) =>
            /\ "dragend" \in raf'
            /\ NotPlaced("features") /\ NotPlaced("range")
       /\ (lastEvent'.type = "frame" /\ "dragend" \in raf /\ dataOpen = "features")
            => PlacedNow("features")]_vars

\* The features panel was open while the HUD was dragged; the frame after
\* the write has measured the container where it was dropped.
C15_Witness ==
    /\ lastEvent.type = "frame"
    /\ dataOpen = "features"
    /\ gestures = 1
    /\ pending = <<>>
    /\ lastDrop = Pos(Px(150), Px(130))
    /\ lastCall["features"].outcome = "placed"
    /\ lastCall["features"].spaceAbove = Px(130)
    /\ RectTop = Px(130)

\* C16: a window resize while the controller is Idle leaves the
\* container's position styles, the persisted position, the writes in
\* flight and the drag state as they are; it changes a panel only if that
\* panel is the open one, and with the features panel open it re-places
\* that panel in the new viewport.
C16_ResizeOnlyPlaces ==
    /\ [](~isDragging => ~thisIsDragging)
    /\ [][(lastEvent'.type = "resize" /\ ~isDragging) =>
             /\ UNCHANGED <<posMode, styleLeft, styleTop, hudOpen, dataOpen>>
             /\ UNCHANGED <<hudPosition, pending, raf, gestures, lastDrop>>
             /\ UNCHANGED dragVars
             /\ \A p \in Panels : panelStyle'[p] # panelStyle[p] => p = dataOpen
             /\ dataOpen = "features" => PlacedNow("features")]_vars

\* The HUD was dropped at the lower edge of a large window and the window
\* was made small with the features panel open: the panel is placed for
\* the new viewport, the container's top is where it was dropped, below
\* the viewport.
C16_Witness ==
    /\ lastEvent.type = "resize"
    /\ ~isDragging
    /\ dataOpen = "features"
    /\ posMode = "fixed"
    /\ innerHeight = Px(150)
    /\ styleTop = Px(600)
    /\ lastCall["features"].viewportHeight = Px(150)
    /\ lastCall["features"].spaceAbove = Px(600)

(***************************************************************************)
(* Claims about _restorePosition.                                          *)
(***************************************************************************)
Created == lastEvent.type = "create" /\ hudOpen

WritesKept ==
    /\ hudPosition' = hudPosition
    /\ Len(pending') = Len(pending)
    /\ \A i \in 1..Len(pending) : pending'[i].pos = pending[i].pos

\* C17 as stated: a rendered HUD with a stored position is at that position
\* clamped into the viewport, left in [0, viewportWidth - 200] and top in
\* [0, viewportHeight - 200]; with no stored position it is at the default
\* centre-bottom place; the render writes nothing to the store.
C17_RestoredInsideViewport ==
    /\ [](Created =>
            IF hudPosition.set
            THEN /\ posMode = "fixed"
                 /\ 0 <= RectLeft /\ RectLeft <= innerWidth - Px(200)
                 /\ 0 <= RectTop /\ RectTop <= innerHeight - Px(200)
                 /\ InRange(hudPosition.left, innerWidth - Px(200))
                       => RectLeft = hudPosition.left
                 /\ InRange(hudPosition.top, innerHeight - Px(200))
                       => RectTop = hudPosition.top
            ELSE posMode = "default")
    /\ [][lastEvent'.type = "create" => WritesKept]_vars

\* C17 amended: a rendered HUD with a stored position (l, t) is at
\* (max(0, min(l, viewportWidth - 200)), max(0, min(t, viewportHeight - 200))),
\* so left is in [0, max(0, viewportWidth - 200)] and top in
\* [0, max(0, viewportHeight - 200)]; with no stored position it is at the
\* default centre-bottom place (centred, 100 px above the lower edge); the
\* render leaves the stored position and the writes in flight as they are.
C17_RestoredClamped ==
    /\ [](Created =>
            IF hudPosition.set
            THEN /\ posMode = "fixed"
                 /\ RectLeft = Within(hudPosition.left, innerWidth - Px(200))
                 /\ RectTop = Within(hudPosition.top, innerHeight - Px(200))
                 /\ 0 <= RectLeft /\ RectLeft <= Max(0, innerWidth - Px(200))
                 /\ 0 <= RectTop /\ RectTop <= Max(0, innerHeight - Px(200))
            ELSE /\ posMode = "default"
                 /\ 2 * RectLeft + hudW \in {innerWidth, innerWidth - 1}
                 /\ RectTop + hudH = innerHeight - Px(100))
    /\ [][lastEvent'.type = "create" => WritesKept]_vars

\* The stored position (100,100) is restored in the 240 x 150 viewport: the
\* container is at (40, 0).
C17_Witness ==
    /\ Created
    /\ hudPosition = Pos(Px(100), Px(100))
    /\ innerWidth = Px(240) /\ innerHeight = Px(150)
    /\ RectLeft = Px(40) /\ RectTop = 0

(***************************************************************************)
(* Claims about the HP and Stress counters.                                *)
(***************************************************************************)
Shown == ActorOf[hudToken]

ClickedValue(bind) ==
    /\ lastEvent'.type \in {"click", "contextmenu"}
    /\ lastEvent'.target = bind

DeltaOf(event) == IF event.type = "click" THEN 1 ELSE -1

Asked(u) == updates' = Append(updates, u)

UpdateDone(bind) == lastEvent' = Event("actorUpdate", 0, bind)

OtherBind(bind) == IF bind = "hp" THEN "stress" ELSE "hp"

ResourceAfter(actor, bind) == IF bind = "hp" THEN hitPoints'[actor] ELSE stress'[actor]

C19_HudOnlyForGMAdversary ==
    /\ hudOpen =>
          /\ isGM
          /\ systemId = "daggerheart"
          /\ hudToken \in Tokens
          /\ ActorOf[hudToken] \in Actors
          /\ ActorType[ActorOf[hudToken]] = "adversary"
    /\ ~isGM => (~hudOpen /\ hudToken = "none")

\* The character token c1 has been selected after the adversary a1: the
\* HUD is still the one of a1.
C19_Witness ==
    /\ lastEvent = Event("select", 0, "c1")
    /\ controlled = <<"a1", "c1">>
    /\ hudOpen
    /\ hudToken = "a1"

\* The places in canvas.tokens.controlled, which is in the order of
\* selection, that hold a token with an adversary actor.
AdversaryPlaces ==
    {i \in 1..Len(controlled) :
        /\ ActorOf[controlled[i]] \in Actors
        /\ ActorType[ActorOf[controlled[i]]] = "adversary"}

\* C20: for a GM in a daggerheart world, after any sequence of selections
\* and deselections that leaves at least one adversary token controlled,
\* the HUD exists and its token is the most recently selected adversary
\* token among those still controlled.
C20_ShowsLastSelectedAdversary ==
    (isGM /\ systemId = "daggerheart" /\ AdversaryPlaces # {}) =>
        /\ hudOpen
        /\ \E i \in AdversaryPlaces :
              /\ hudToken = controlled[i]
              /\ \A j \in AdversaryPlaces : j <= i

\* a2, c1 and a1 were selected in that order and a1 has been deselected: the
\* HUD has gone from a1 back to a2.
C20_Witness ==
    /\ lastEvent = Event("release", 0, "a1")
    /\ controlled = <<"a2", "c1">>
    /\ hudOpen
    /\ hudToken = "a2"

\* C21: after any controlToken, deleteToken, canvasReady, updateActor or
\* active-effect hook that leaves no adversary token controlled, no HUD is
\* open; a HUD that is open shows a controlled adversary token.
C21_ClosedWithoutAdversary ==
    /\ AdversaryPlaces = {} => (~hudOpen /\ hudToken = "none")
    /\ hudOpen => \E i \in AdversaryPlaces : controlled[i] = hudToken

\* The adversary a1, which a GM had selected together with the character
\* c1, has been deselected: the HUD is closed.
C21_Witness ==
    /\ lastEvent = Event("release", 0, "a1")
    /\ isGM /\ systemId = "daggerheart"
    /\ controlled = <<"c1">>
    /\ ~hudOpen

InBounds(resource) == 0 <= resource.value /\ resource.value <= resource.max

\* C22: every update a click on HP or Stress asks for carries a value in
\* [0, max] that differs from the value the actor holds at the click, and
\* a click whose clamped result is the value the actor holds asks for no
\* update; a done update leaves the resource in [0, max], and no step takes
\* a resource that is in [0, max] out of it.
C22_ValuesStayInBounds ==
    [][/\ \A bind \in Binds :
            /\ ClickedValue(bind) =>
                  LET v == ResourceOf(Shown, bind).value
                      m == ResourceOf(Shown, bind).max
                      d == DeltaOf(lastEvent')
                      wouldBe == IF v + d > m THEN m ELSE IF v + d < 0 THEN 0 ELSE v + d
                  IN  /\ wouldBe = v => updates' = updates
                      /\ updates' # updates =>
                            /\ Len(updates') = Len(updates) + 1
                            /\ updates'[Len(updates')].value \in 0..m
                            /\ updates'[Len(updates')].value # v
            /\ UpdateDone(bind) => InBounds(ResourceAfter(Head(updates).actor, bind))
       /\ \A a \in Actors, bind \in Binds :
            InBounds(ResourceOf(a, bind)) => InBounds(ResourceAfter(a, bind))]_vars

\* HP was raised from 1 to its max 2 by a left-click and left-clicked
\* again: the second click has asked for nothing.
C22_Witness ==
    /\ lastEvent = Event("click", 0, "hp")
    /\ hitPoints["goblin"] = [value |-> 2, max |-> 2]
    /\ stress["goblin"] = [value |-> 0, max |-> 0]
    /\ updates = <<>>

(***************************************************************************)
(* Claims about the range templates.  RangeDone(r) is the step in which    *)
(* the handler of a click on the button of r, or of a cleanup click,       *)
(* finishes; Head(requests) is then the last request of that handler.      *)
(***************************************************************************)
RangeDone(range) == lastEvent' = Event("rangeDone", 0, range)

TemplatesOf(docs, token) == {t \in docs : t.tokenId = token}

TemplatesFor(docs, token, range) == {t \in docs : t.tokenId = token /\ t.range = range}

\* C23: a left-click on the button of a range whose handler runs without
\* another handler in flight toggles the template of (token, range): when
\* one was there at the click none is left, otherwise exactly one is
\* there; the handler asks for a deletion in the first case and for a
\* creation in the second.
C23_RangeClickToggles ==
    [][\A range \in Ranges :
          /\ (lastEvent' = Event("click", 0, range) /\ requests = <<>>) =>
                LET new == requests'[1]
                IN  /\ Len(requests') = 1
                    /\ new.tokenId = hudToken /\ new.range = range
                    /\ new.had = (TemplatesFor(templates, hudToken, range) # {})
                    /\ new.had => (new.op = "delete" /\ new.next = "state")
                    /\ ~new.had => (new.op = "create" \/ new.next = "create")
          /\ (RangeDone(range) /\ ~Head(requests).overlapped) =>
                LET h == Head(requests)
                IN  IF h.had
                    THEN TemplatesFor(templates', h.tokenId, range) = {}
                    ELSE /\ Cardinality(TemplatesFor(templates', h.tokenId, range)) = 1
                         /\ TemplatesFor(templates, h.tokenId, range) = {}]_vars

\* The button of close was clicked twice on the HUD of a1, each click
\* finishing before the next: the scene has no template again.
C23_Witness ==
    /\ lastEvent = Event("rangeDone", 0, "close")
    /\ hudToken = "a1"
    /\ controlled = <<"a1">>
    /\ templates = {}
    /\ requests = <<>>
    /\ active = [r \in Ranges |-> FALSE]
    /\ closing = 0

(***************************************************************************)
(* Claims about the end of a drag.                                         *)
(***************************************************************************)
FeaturesPlacedOrClosed ==
    \/ lastEvent.type = "frame" /\ lastCall["features"].outcome = "placed"
                                /\ lastCall["features"].spaceAbove = RectTop
    \/ dataOpen # "features"

\* C24 as stated: after a pointerup that ends a drag with the features
\* popover open, the popover is placed again (unless it is closed)
\* whether or not the write of the position ever settles.
C24_PlacedWithoutWaiting ==
    (lastEvent = DragEnded /\ dataOpen = "features") ~> FeaturesPlacedOrClosed

\* C24 amended: the pointerup that ends a drag places nothing and asks for
\* no animation frame; the frame is asked for when the write of the
\* position settles, done or rejected, and from then on the features
\* popover is placed again in the next frame (unless it is closed); while
\* the write has not settled no placement follows from the drag end.
C24_PlacedAfterWriteSettles ==
    /\ [][/\ lastEvent' = DragEnded =>
                /\ UNCHANGED <<raf, panelStyle, lastCall>>
                /\ pending' # <<>>
                /\ pending'[Len(pending')].live
          /\ (lastEvent'.type = "settle" /\ Head(pending).live) => "dragend" \in raf'
          /\ ("dragend" \in raf' /\ "dragend" \notin raf) => lastEvent'.type = "settle"
          /\ (lastEvent'.type = "frame" /\ raf = {"dragend"}) =>
                IF dataOpen = "features" THEN PlacedNow("features")
                ELSE UNCHANGED <<panelStyle, lastCall>>]_vars
    /\ ("dragend" \in raf /\ dataOpen = "features") ~> FeaturesPlacedOrClosed

\* The write of the dropped position was rejected and the frame after it
\* has placed the open features popover where the HUD was dropped.
C24_Witness ==
    /\ lastEvent.type = "frame"
    /\ dataOpen = "features"
    /\ lastDrop = Pos(Px(150), Px(130))
    /\ hudPosition = Pos(Px(100), Px(100))
    /\ pending = <<>>
    /\ lastCall["features"].outcome = "placed"
    /\ lastCall["features"].spaceAbove = Px(130)

(***************************************************************************)
(* Claims about the instances.                                             *)
(***************************************************************************)
\* The instance the module refers to, and the instances it no longer
\* refers to whose close has not finished.
OpenInstances == (IF hudOpen THEN 1 ELSE 0) + closing

\* C25: at most one HUD instance is open in every state, also while the
\* close of the previous instance is in progress.
C25_OneInstanceOpen == OpenInstances <= 1

\* C26: after close() no window listener of the closed instance is still
\* registered, and a pointerup saves no position for an instance that has
\* been closed: only the onUp of the instance shown, when it is dragged,
\* calls setFlag, once.
C26_NoListenerAfterClose ==
    /\ [](orphans = 0)
    /\ [][lastEvent'.type = "pointerup" =>
            /\ Len(pending') <= Len(pending) + (IF listening /\ isDragging THEN 1 ELSE 0)
            /\ \A i \in (Len(pending) + 1)..Len(pending') : pending'[i].live]_vars

(***************************************************************************)
(* Claims about the range templates of the scene.                          *)
(***************************************************************************)
\* C27: whatever range buttons were clicked, handlers overlapping or not,
\* the scene holds at most one template of this module for each token.
C27_OneTemplatePerToken ==
    \A token \in Tokens : Cardinality(TemplatesOf(templates, token)) <= 1

\* C28 as stated: a request of the HUD of one token changes the templates
\* of no other token, tokens of the same actor included.
C28_OtherTokensUntouched ==
    [][templates' # templates =>
          \A token \in Tokens \ {Head(requests).tokenId} :
              TemplatesOf(templates', token) = TemplatesOf(templates, token)]_vars

\* C28 amended: a request of the HUD of one token changes the templates of
\* no token of another actor, and toggling a range off changes the
\* templates of no other token; creating a template and the cleanup of the
\* HUD's token also delete the templates of the other tokens of the same
\* actor, all of them when no other handler was in flight.
C28_OtherActorsUntouched ==
    [][templates' # templates =>
          LET r == Head(requests)
          IN  /\ \A token \in Tokens :
                     ActorOf[token] # r.actorId =>
                         TemplatesOf(templates', token) = TemplatesOf(templates, token)
              /\ (r.op = "delete" /\ r.next = "state") =>
                     \A token \in Tokens \ {r.tokenId} :
                         TemplatesOf(templates', token) = TemplatesOf(templates, token)
              /\ (r.op = "delete" /\ r.next \in {"create", "all"} /\ ~r.overlapped) =>
                     \A token \in Tokens :
                         ActorOf[token] = r.actorId => TemplatesOf(templates', token) = {}]_vars

\* a1 and a2 each got a template from their HUD; the cleanup button of the
\* HUD of a3, which shares the actor of a1, has deleted the template of a1
\* and left the one of a2.
C28_Witness ==
    /\ lastEvent = Event("rangeDone", 0, "token")
    /\ hudToken = "a3"
    /\ requests = <<>>
    /\ \E t \in templates : t.tokenId = "a2" /\ t.id = 2
    /\ Cardinality(templates) = 1

\* C30: when a range click, a cleanup or a render is complete and no
\* handler is in flight, every range button of the HUD is shown active
\* exactly when its token has a template of that range.
C30_ButtonsMirrorTemplates ==
    (/\ hudOpen
     /\ requests = <<>>
     /\ lastEvent.type \in {"rangeDone", "cleanup", "create", "select"})
        => \A g \in Ranges : active[g] <=> HasTemplateForRange(hudToken, g)

(***************************************************************************)
(* Claims about the panel and the viewport edge.                           *)
(***************************************************************************)
\* C29 as stated: the maximum height applied to a panel never exceeds the
\* space on the chosen side minus the margin of 12 px.
C29_MaxHeightWithinSpace ==
    \A p \in Panels : Placed(p) =>
        panelStyle[p].maxh <= ChosenSpace(lastCall[p]) - margin

\* C29 amended: the applied maximum height never exceeds the larger of
\* 180 px and the space on the chosen side minus 12 px; it stays within
\* that space minus 12 px whenever the chosen side has 192 px or more, and
\* with less room it is the floor of 180 px (cut down to maxAllowed), which
\* reaches past the viewport edge.
C29_MaxHeightWithinSpaceOrFloor ==
    \A p \in Panels : Placed(p) =>
        LET S == ChosenSpace(lastCall[p])
        IN  /\ panelStyle[p].maxh <= Max(Px(180), S - margin)
            /\ S >= Px(192) => panelStyle[p].maxh <= S - margin
            /\ S < Px(192) =>
                   panelStyle[p].maxh = Min(Px(180), MaxAllowedOf(lastCall[p].viewportHeight))

\* A window of 400 px with 170 px on either side of the HUD: the panel
\* opens down with a maximum height of 180 px, more than the 158 px left.
C29_Witness ==
    \E p \in Panels :
        /\ Placed(p)
        /\ lastCall[p].viewportHeight = Px(400)
        /\ lastCall[p].spaceBelow = Px(170)
        /\ panelStyle[p].dir = "down"
        /\ panelStyle[p].maxh = Px(180)

====
